---------------------------- MODULE Spec2Model ----------------------------
(***************************************************************************)
(* Model of the ds-diag scoring engine (src/scoring.js), of the narrative   *)
(* generators (src/report.js) and of the caller that feeds them.           *)
(*                                                                         *)
(* JavaScript numbers are modelled as exact rationals n/d in lowest terms  *)
(* (d > 0) together with the non-finite values NaN, +Infinity, -Infinity   *)
(* and the non-numeric values a response map can hold.  IEEE-754 rounding  *)
(* is not modelled: every arithmetic result is the exact real value.       *)
(*                                                                         *)
(* JavaScript objects whose key order is observable (Object.entries) are   *)
(* modelled as sequences of entries in insertion order; objects that are   *)
(* only looked up by key are modelled as functions on their own keys.      *)
(***************************************************************************)
EXTENDS Integers, Sequences, FiniteSets, TLC

VARIABLES
    QUESTIONNAIRE,     \* the schema: structuralMaturity.behavioralQuestions
    responses,         \* maturity answers: question id -> value
    contextResponses,  \* context answers: key -> value
    pc,                \* "idle" before the call, "model" once the report model
                       \* is computed, "done" after the call returned
    report,            \* the value computeReportModel returned for the current
                       \* maps (a report is never kept across an answer change)
    narrative,         \* what the narrative generators returned for report
    normalized,        \* arguments and results of the two normalisers
    currentStep,       \* state.currentStep of the wizard
    keyOrder,          \* insertion order of the keys of the two answer maps
    validationMessage, \* text of the validation message element
    localStorage,      \* the two stored items, and whether storage works
    clock,             \* what new Date() returns
    copyButton         \* label of the Copy summary button, pending handlers

vars == <<QUESTIONNAIRE, responses, contextResponses, pc, report, narrative,
          normalized, currentStep, keyOrder, validationMessage, localStorage,
          clock, copyButton>>

\* The wizard page around the engine.
page == <<currentStep, keyOrder, validationMessage, localStorage, clock, copyButton>>

(***************************************************************************)
(* JavaScript values and arithmetic                                        *)
(***************************************************************************)
Abs(i) == IF i < 0 THEN -i ELSE i

RECURSIVE Gcd(_, _)
Gcd(a, b) == IF b = 0 THEN a ELSE Gcd(b, a % b)

\* The finite number n/d (d # 0), in lowest terms with a positive denominator.
Num(n, d) ==
    LET g == Gcd(Abs(n), Abs(d))
        s == IF d < 0 THEN -1 ELSE 1
    IN  [t |-> "num", n |-> s * (n \div g), d |-> s * (d \div g)]

Whole(i) == [t |-> "num", n |-> i, d |-> 1]
NaN == [t |-> "nan", n |-> 0, d |-> 0]
PosInfinity == [t |-> "inf", n |-> 1, d |-> 0]
NegInfinity == [t |-> "inf", n |-> -1, d |-> 0]
\* Non-numeric values: a string that is no number, null, undefined.
Text == [t |-> "str", n |-> 0, d |-> 0]
\* Values of another type that Number() converts to a finite number: the
\* string that spells the integer i, and the boolean true.
NumericText(i) == [t |-> "numstr", n |-> i, d |-> 1]
JsTrue == [t |-> "bool", n |-> 1, d |-> 1]
Null == [t |-> "null", n |-> 0, d |-> 0]
Undefined == [t |-> "undef", n |-> 0, d |-> 0]

IsFinite(v) == v.t = "num"

\* Number(value)
Number(v) ==
    CASE v.t = "num" -> v
      [] v.t = "inf" -> v
      [] v.t = "null" -> Whole(0)
      [] v.t = "numstr" -> Whole(v.n)
      [] v.t = "bool" -> Whole(v.n)
      [] OTHER -> NaN

\* a < b on numbers; any comparison with NaN is false.
Less(a, b) ==
    CASE a.t = "num" /\ b.t = "num" -> a.n * b.d < b.n * a.d
      [] a.t = "inf" /\ b.t = "num" -> a.n < 0
      [] a.t = "num" /\ b.t = "inf" -> b.n > 0
      [] a.t = "inf" /\ b.t = "inf" -> a.n < b.n
      [] OTHER -> FALSE

NumEq(a, b) ==
    CASE a.t = "num" /\ b.t = "num" -> a.n * b.d = b.n * a.d
      [] a.t = "inf" /\ b.t = "inf" -> a.n = b.n
      [] OTHER -> FALSE

Leq(a, b) == Less(a, b) \/ NumEq(a, b)
Geq(a, b) == Leq(b, a)

\* The four arithmetic operators, on finite operands (every call site of the
\* engine passes clamped, finite values); anything else yields NaN.
Add(a, b) ==
    IF IsFinite(a) /\ IsFinite(b) THEN Num(a.n * b.d + b.n * a.d, a.d * b.d) ELSE NaN
Sub(a, b) ==
    IF IsFinite(a) /\ IsFinite(b) THEN Num(a.n * b.d - b.n * a.d, a.d * b.d) ELSE NaN
Mul(a, b) ==
    IF IsFinite(a) /\ IsFinite(b) THEN Num(a.n * b.n, a.d * b.d) ELSE NaN
Div(a, b) ==
    IF IsFinite(a) /\ IsFinite(b) /\ b.n # 0 THEN Num(a.n * b.d, a.d * b.n) ELSE NaN

\* Math.min / Math.max on finite operands.
MathMin(a, b) == IF Less(b, a) THEN b ELSE a
MathMax(a, b) == IF Less(a, b) THEN b ELSE a

\* JavaScript truthiness of a value: 0, NaN, null, undefined are falsy.
Truthy(v) ==
    CASE v.t = "num" -> v.n # 0
      [] v.t = "inf" -> TRUE
      [] v.t = "str" -> TRUE
      [] v.t = "numstr" -> TRUE
      [] v.t = "bool" -> v.n = 1
      [] OTHER -> FALSE

\* Number(v || 0)
NumberOrZero(v) == Number(IF Truthy(v) THEN v ELSE Whole(0))

(***************************************************************************)
(* Program constants                                                       *)
(***************************************************************************)
\* Object.entries order of OPERATIONAL_WEIGHTS / CONTEXT_KEY_ALIASES.
Factors ==
    <<"teamSize", "productComplexity", "aiUsage", "releaseFrequency",
      "toolingFragmentation">>

FactorSet == {Factors[i] : i \in 1..Len(Factors)}

\* Mutant: toolingFragmentation weighted like teamSize.
OPERATIONAL_WEIGHTS_Skewed ==
    [teamSize |-> Num(25, 100),
     productComplexity |-> Num(25, 100),
     aiUsage |-> Num(2, 10),
     releaseFrequency |-> Num(15, 100),
     toolingFragmentation |-> Num(25, 100)]

OPERATIONAL_WEIGHTS ==
    [teamSize |-> Num(25, 100),
     productComplexity |-> Num(25, 100),
     aiUsage |-> Num(2, 10),
     releaseFrequency |-> Num(15, 100),
     toolingFragmentation |-> Num(15, 100)]

CONTEXT_KEY_ALIASES ==
    [teamSize |-> <<"teamSize", "oc_team_size">>,
     productComplexity |-> <<"productComplexity", "oc_product_complexity">>,
     aiUsage |-> <<"aiUsage", "oc_ai_usage">>,
     releaseFrequency |-> <<"releaseFrequency", "oc_release_frequency">>,
     toolingFragmentation |-> <<"toolingFragmentation", "oc_tooling_fragmentation">>]

(***************************************************************************)
(* Normalisation                                                           *)
(***************************************************************************)
\* Mutant: no Number.isFinite test, NaN passes through Math.min / Math.max.
toClampedNumber_NoFiniteCheck(value, min, max) ==
    LET n == Number(value)
    IN  IF n.t = "nan" THEN NaN ELSE MathMin(max, MathMax(min, n))

\* Mutant: only the lower bound is applied.
toClampedNumber_NoUpper(value, min, max) ==
    LET n == Number(value)
    IN  IF ~IsFinite(n) THEN min ELSE MathMax(min, n)

toClampedNumber(value, min, max) ==
    LET n == Number(value)
    IN  IF ~IsFinite(n) THEN min ELSE MathMin(max, MathMax(min, n))

\* Mutant: the 0-3 scale taken for a scale of four steps.
normalize0to3To100_ScaleOf4(score0to3) ==
    LET clamped == toClampedNumber(score0to3, Whole(0), Whole(3))
    IN  Mul(Div(clamped, Whole(4)), Whole(100))

normalize0to3To100(score0to3) ==
    LET clamped == toClampedNumber(score0to3, Whole(0), Whole(3))
    IN  Mul(Div(clamped, Whole(3)), Whole(100))

\* Mutant: the 1-4 scale is not shifted to start at 0.
normalize1to4To100_NoOffset(score1to4) ==
    LET clamped == toClampedNumber(score1to4, Whole(1), Whole(4))
    IN  Mul(Div(clamped, Whole(3)), Whole(100))

normalize1to4To100(score1to4) ==
    LET clamped == toClampedNumber(score1to4, Whole(1), Whole(4))
    IN  Mul(Div(Sub(clamped, Whole(1)), Whole(3)), Whole(100))

\* Object.prototype.hasOwnProperty.call(obj, key)
HasOwn(obj, key) == key \in DOMAIN obj

\* Mutant: no early return, the last alias present wins.
RECURSIVE resolveLast(_, _, _, _)
resolveLast(ctx, aliases, i, found) ==
    IF i > Len(aliases) THEN found
    ELSE resolveLast(ctx, aliases, i + 1,
                     IF HasOwn(ctx, aliases[i]) THEN Number(ctx[aliases[i]]) ELSE found)

resolveContextValue_LastWins(ctx, aliases) == resolveLast(ctx, aliases, 1, Whole(1))

RECURSIVE resolveFrom(_, _, _)
resolveFrom(ctx, aliases, i) ==
    IF i > Len(aliases) THEN Whole(1)
    ELSE IF HasOwn(ctx, aliases[i]) THEN Number(ctx[aliases[i]])
    ELSE resolveFrom(ctx, aliases, i + 1)

resolveContextValue(ctx, aliases) == resolveFrom(ctx, aliases, 1)

(***************************************************************************)
(* Dimension aggregator                                                    *)
(***************************************************************************)
\* String.prototype.toLowerCase on the dimension names schemas use.
toLowerCase(s) ==
    CASE s = "Governance" -> "governance"
      [] s = "Distribution" -> "distribution"
      [] s = "Documentation" -> "documentation"
      [] s = "Components" -> "components"
      [] s = "Foundations" -> "foundations"
      [] s = "Adoption" -> "adoption"
      [] s = "Accessibility" -> "accessibility"
      [] s = "Tooling" -> "tooling"
      [] OTHER -> s

\* Index of the entry of key k in a sequence of entries, 0 when absent.
RECURSIVE IndexOf(_, _, _)
IndexOf(entries, k, i) ==
    IF i > Len(entries) THEN 0
    ELSE IF entries[i].dimension = k THEN i
    ELSE IndexOf(entries, k, i + 1)

HasKey(entries, k) == IndexOf(entries, k, 1) # 0
Lookup(entries, k) == entries[IndexOf(entries, k, 1)]
Keys(entries) == [i \in 1..Len(entries) |-> entries[i].dimension]

\* One iteration of the loop over the questions (scoring.js 76-86).
accumStep(accum, q, resp) ==
    LET key == toLowerCase(q.dimension)
        a1 == IF HasKey(accum, key) THEN accum
              ELSE Append(accum, [dimension |-> key, sum |-> Whole(0),
                                  count |-> 0, total |-> 0])
        i == IndexOf(a1, key, 1)
        answered == HasOwn(resp, q.id)
        value == IF answered THEN toClampedNumber(resp[q.id], Whole(0), Whole(3))
                 ELSE Whole(0)
    IN  [a1 EXCEPT ![i] =
            [dimension |-> key,
             sum |-> IF answered THEN Add(@.sum, value) ELSE @.sum,
             count |-> IF answered THEN @.count + 1 ELSE @.count,
             total |-> @.total + 1]]

RECURSIVE accumulate(_, _, _, _)
accumulate(accum, questions, resp, i) ==
    IF i > Len(questions) THEN accum
    ELSE accumulate(accumStep(accum, questions[i], resp), questions, resp, i + 1)

\* Mutant: the division is not guarded against count = 0.
dimensionAvg_Unguarded(stats) == Div(stats.sum, Whole(stats.count))

\* avg of one dimension (scoring.js 91).
dimensionAvg(stats) ==
    IF stats.count > 0 THEN Div(stats.sum, Whole(stats.count)) ELSE Whole(0)

\* Mutant: dimensions without an answer are left out of the result.
computeDimensionScores_DropUnanswered(resp, schema) ==
    LET questions == schema.structuralMaturity.behavioralQuestions
        accum == SelectSeq(accumulate(<<>>, questions, resp, 1),
                           LAMBDA stats : stats.count > 0)
    IN  [i \in 1..Len(accum) |->
            LET avg == dimensionAvg(accum[i])
            IN  [dimension |-> accum[i].dimension,
                 avg |-> avg,
                 score100 |-> normalize0to3To100(avg),
                 answered |-> accum[i].count,
                 total |-> accum[i].total]]

computeDimensionScores(resp, schema) ==
    LET questions == schema.structuralMaturity.behavioralQuestions
        accum == accumulate(<<>>, questions, resp, 1)
    IN  [i \in 1..Len(accum) |->
            LET avg == dimensionAvg(accum[i])
            IN  [dimension |-> accum[i].dimension,
                 avg |-> avg,
                 score100 |-> normalize0to3To100(avg),
                 answered |-> accum[i].count,
                 total |-> accum[i].total]]

(***************************************************************************)
(* Operational pressure                                                    *)
(***************************************************************************)
factorBreakdown(ctx, factor) ==
    LET raw == resolveContextValue(ctx, CONTEXT_KEY_ALIASES[factor])
        score100 == normalize1to4To100(raw)
        weight == OPERATIONAL_WEIGHTS[factor]
    IN  [raw |-> raw, score100 |-> score100, weight |-> weight,
         contribution |-> Mul(score100, weight)]

\* OPI += contribution over the first i factors, in Object.entries order.
RECURSIVE sumContributions(_, _)
sumContributions(breakdown, i) ==
    IF i = 0 THEN Whole(0)
    ELSE Add(sumContributions(breakdown, i - 1), breakdown[Factors[i]].contribution)

computeOperationalPressure(ctx) ==
    LET breakdown == [f \in FactorSet |-> factorBreakdown(ctx, f)]
    IN  [OPI |-> sumContributions(breakdown, Len(Factors)), breakdown |-> breakdown]

(***************************************************************************)
(* Composite index and gaps                                                *)
(***************************************************************************)
RECURSIVE sumScores(_, _)
sumScores(values, i) ==
    IF i = 0 THEN Whole(0)
    ELSE Add(sumScores(values, i - 1), NumberOrZero(values[i].score100))

\* Mutant: the mean is taken over the dimensions that have an answer.
computeSSI_AnsweredOnly(dimensionScores) ==
    LET answered == SelectSeq(dimensionScores, LAMBDA d : d.answered > 0)
    IN  IF Len(answered) = 0 THEN Whole(0)
        ELSE Div(sumScores(answered, Len(answered)), Whole(Len(answered)))

computeSSI(dimensionScores) ==
    IF Len(dimensionScores) = 0 THEN Whole(0)
    ELSE Div(sumScores(dimensionScores, Len(dimensionScores)),
             Whole(Len(dimensionScores)))

\* Mutant: the operands are swapped.
computeAdequacyGap_Swapped(SSI, OPI) == Sub(NumberOrZero(OPI), NumberOrZero(SSI))

computeAdequacyGap(SSI, OPI) == Sub(NumberOrZero(SSI), NumberOrZero(OPI))

computeDimensionGaps(dimensionScores, OPI) ==
    [i \in 1..Len(dimensionScores) |->
        [dimension |-> dimensionScores[i].dimension,
         gap |-> Sub(NumberOrZero(dimensionScores[i].score100), NumberOrZero(OPI))]]

(***************************************************************************)
(* Risk classifier                                                         *)
(***************************************************************************)
GAP_THRESHOLD == Whole(-15)
ENTROPY_FLAG == "Entropy risk (AI velocity > governance)"
DRIFT_FLAG == "Drift risk (scale > release discipline)"
gapFlag(dimension) == dimension \o " risk (gap < -15)"

\* Mutant: the threshold is inclusive.
isRisk_Inclusive(gap) == Leq(gap, GAP_THRESHOLD)

isRisk(gap) == Less(gap, GAP_THRESHOLD)

\* The flags pushed by the loop over dimensionGaps (scoring.js 182-188).
RECURSIVE gapFlags(_, _)
gapFlags(dimensionGaps, i) ==
    IF i = 0 THEN <<>>
    ELSE LET rest == gapFlags(dimensionGaps, i - 1)
         IN  IF isRisk(dimensionGaps[i].gap)
             THEN Append(rest, gapFlag(dimensionGaps[i].dimension))
             ELSE rest

\* Mutant: "average below 2" written as "average at most 1".
entropyRule_AvgAtMostOne(context) ==
    LET aiUsage == NumberOrZero(context.aiUsage)
        governanceAvg == NumberOrZero(context.governanceAvg)
    IN  Geq(aiUsage, Whole(3)) /\ Leq(governanceAvg, Whole(1))

entropyRule(context) ==
    LET aiUsage == NumberOrZero(context.aiUsage)
        governanceAvg == NumberOrZero(context.governanceAvg)
    IN  Geq(aiUsage, Whole(3)) /\ Less(governanceAvg, Whole(2))

\* Mutant: teamSize must exceed 3.
driftRule_Above3(context) ==
    LET teamSize == NumberOrZero(context.teamSize)
        distributionAvg == NumberOrZero(context.distributionAvg)
    IN  Less(Whole(3), teamSize) /\ Less(distributionAvg, Whole(2))

driftRule(context) ==
    LET teamSize == NumberOrZero(context.teamSize)
        distributionAvg == NumberOrZero(context.distributionAvg)
    IN  Geq(teamSize, Whole(3)) /\ Less(distributionAvg, Whole(2))

\* Mutant: the cross-cutting rules are skipped once a gap flag was raised.
classifyRisks_EarlyExit(dimensionGaps, context) ==
    LET byDimension ==
            [i \in 1..Len(dimensionGaps) |->
                [dimension |-> dimensionGaps[i].dimension,
                 gap |-> dimensionGaps[i].gap,
                 risk |-> isRisk(dimensionGaps[i].gap)]]
        f1 == gapFlags(dimensionGaps, Len(dimensionGaps))
        f2 == IF entropyRule(context) THEN Append(f1, ENTROPY_FLAG) ELSE f1
        f3 == IF driftRule(context) THEN Append(f2, DRIFT_FLAG) ELSE f2
        flags == IF Len(f1) > 0 THEN f1 ELSE f3
    IN  [byDimension |-> byDimension, flags |-> flags, hasRisk |-> Len(flags) > 0]

\* Mutant: the drift rule is evaluated before the entropy rule.
classifyRisks_DriftFirst(dimensionGaps, context) ==
    LET byDimension ==
            [i \in 1..Len(dimensionGaps) |->
                [dimension |-> dimensionGaps[i].dimension,
                 gap |-> dimensionGaps[i].gap,
                 risk |-> isRisk(dimensionGaps[i].gap)]]
        f1 == gapFlags(dimensionGaps, Len(dimensionGaps))
        f2 == IF driftRule(context) THEN Append(f1, DRIFT_FLAG) ELSE f1
        flags == IF entropyRule(context) THEN Append(f2, ENTROPY_FLAG) ELSE f2
    IN  [byDimension |-> byDimension, flags |-> flags, hasRisk |-> Len(flags) > 0]

classifyRisks(dimensionGaps, context) ==
    LET byDimension ==
            [i \in 1..Len(dimensionGaps) |->
                [dimension |-> dimensionGaps[i].dimension,
                 gap |-> dimensionGaps[i].gap,
                 risk |-> isRisk(dimensionGaps[i].gap)]]
        f1 == gapFlags(dimensionGaps, Len(dimensionGaps))
        f2 == IF entropyRule(context) THEN Append(f1, ENTROPY_FLAG) ELSE f1
        flags == IF driftRule(context) THEN Append(f2, DRIFT_FLAG) ELSE f2
    IN  [byDimension |-> byDimension, flags |-> flags, hasRisk |-> Len(flags) > 0]

(***************************************************************************)
(* Report assembler                                                        *)
(***************************************************************************)
\* dimensionScores.<name>?.avg || 0
avgOf(dimensionScores, name) ==
    NumberOrZero(IF HasKey(dimensionScores, name)
                 THEN Lookup(dimensionScores, name).avg
                 ELSE Undefined)

computeReportModel(resp, ctx, schema) ==
    LET dimensionScores == computeDimensionScores(resp, schema)
        operationalPressure == computeOperationalPressure(ctx)
        SSI == computeSSI(dimensionScores)
        adequacyGap == computeAdequacyGap(SSI, operationalPressure.OPI)
        dimensionGaps == computeDimensionGaps(dimensionScores, operationalPressure.OPI)
        teamSize == resolveContextValue(ctx, CONTEXT_KEY_ALIASES.teamSize)
        aiUsage == resolveContextValue(ctx, CONTEXT_KEY_ALIASES.aiUsage)
        governanceAvg == avgOf(dimensionScores, "governance")
        distributionAvg == avgOf(dimensionScores, "distribution")
        risks == classifyRisks(dimensionGaps,
                     [teamSize |-> teamSize, aiUsage |-> aiUsage,
                      governanceAvg |-> governanceAvg,
                      distributionAvg |-> distributionAvg])
        normalized100 ==
            [f \in FactorSet |->
                normalize1to4To100(resolveContextValue(ctx, CONTEXT_KEY_ALIASES[f]))]
        raw ==
            [teamSize |-> teamSize,
             productComplexity |->
                 resolveContextValue(ctx, CONTEXT_KEY_ALIASES.productComplexity),
             aiUsage |-> aiUsage,
             releaseFrequency |->
                 resolveContextValue(ctx, CONTEXT_KEY_ALIASES.releaseFrequency),
             toolingFragmentation |->
                 resolveContextValue(ctx, CONTEXT_KEY_ALIASES.toolingFragmentation)]
    IN  [context |-> [raw |-> raw, normalized100 |-> normalized100],
         operationalPressure |-> operationalPressure,
         dimensionScores |-> dimensionScores,
         SSI |-> SSI,
         adequacyGap |-> adequacyGap,
         dimensionGaps |-> dimensionGaps,
         risks |-> risks]

(***************************************************************************)
(* Narrative generators (src/report.js)                                    *)
(***************************************************************************)
Digits == <<"0", "1", "2", "3", "4", "5", "6", "7", "8", "9">>

\* The decimal digits of a natural number.
RECURSIVE NatToString(_)
NatToString(i) ==
    IF i < 10 THEN Digits[i + 1] ELSE NatToString(i \div 10) \o Digits[(i % 10) + 1]

\* Number.prototype.toFixed(1): the magnitude rounded to tenths, a tie going
\* to the larger tenth, behind the sign of a negative number.
toFixed1(x) ==
    CASE x.t = "nan" -> "NaN"
      [] x.t = "inf" -> IF x.n < 0 THEN "-Infinity" ELSE "Infinity"
      [] OTHER ->
            LET tenths == (20 * Abs(x.n) + x.d) \div (2 * x.d)
            IN  (IF x.n < 0 THEN "-" ELSE "")
                    \o NatToString(tenths \div 10) \o "." \o Digits[(tenths % 10) + 1]

\* String(x) inside a template literal, for the numbers a context level can
\* be: integers, numbers with one decimal digit, NaN and the infinities.
NumberToString(x) ==
    CASE x.t = "nan" -> "NaN"
      [] x.t = "inf" -> IF x.n < 0 THEN "-Infinity" ELSE "Infinity"
      [] x.d = 1 -> (IF x.n < 0 THEN "-" ELSE "") \o NatToString(Abs(x.n))
      [] OTHER ->
            LET tenths == (10 * Abs(x.n)) \div x.d
            IN  (IF x.n < 0 THEN "-" ELSE "")
                    \o NatToString(tenths \div 10) \o "." \o Digits[(tenths % 10) + 1]

\* Inverse of toLowerCase on the first letter, for the dimension keys.
toTitle(key) ==
    CASE key = "governance" -> "Governance"
      [] key = "distribution" -> "Distribution"
      [] key = "documentation" -> "Documentation"
      [] key = "components" -> "Components"
      [] key = "foundations" -> "Foundations"
      [] key = "adoption" -> "Adoption"
      [] key = "accessibility" -> "Accessibility"
      [] key = "tooling" -> "Tooling"
      [] OTHER -> key

\* Array.prototype.sort with (a, b) => b.score100 - a.score100 is stable:
\* each entry goes behind the entries that do not sort after it.
RECURSIVE sortDescending(_, _)
sortDescending(entries, i) ==
    IF i = 0 THEN <<>>
    ELSE LET sorted == sortDescending(entries, i - 1)
             e == entries[i]
             k == Cardinality({j \in 1..Len(sorted) :
                                  Geq(sorted[j].score100, e.score100)})
         IN  SubSeq(sorted, 1, k) \o <<e>> \o SubSeq(sorted, k + 1, Len(sorted))

\* Mutant: an entry goes in front of the entries it ties with.
RECURSIVE sortDescendingUnstable(_, _)
sortDescendingUnstable(entries, i) ==
    IF i = 0 THEN <<>>
    ELSE LET sorted == sortDescendingUnstable(entries, i - 1)
             e == entries[i]
             k == Cardinality({j \in 1..Len(sorted) :
                                  Less(e.score100, sorted[j].score100)})
         IN  SubSeq(sorted, 1, k) \o <<e>> \o SubSeq(sorted, k + 1, Len(sorted))

sortedDimensions_Unstable(dimensionScores) ==
    sortDescendingUnstable(
        [i \in 1..Len(dimensionScores) |->
            [dimension |-> dimensionScores[i].dimension,
             avg |-> NumberOrZero(dimensionScores[i].avg),
             score100 |-> NumberOrZero(dimensionScores[i].score100)]],
        Len(dimensionScores))

sortedDimensions(dimensionScores) ==
    sortDescending(
        [i \in 1..Len(dimensionScores) |->
            [dimension |-> dimensionScores[i].dimension,
             avg |-> NumberOrZero(dimensionScores[i].avg),
             score100 |-> NumberOrZero(dimensionScores[i].score100)]],
        Len(dimensionScores))

\* Array.prototype.reverse and Array.prototype.slice(0, n)
Reverse(s) == [i \in 1..Len(s) |-> s[Len(s) + 1 - i]]
SliceFirst(s, n) == SubSeq(s, 1, IF Len(s) < n THEN Len(s) ELSE n)

\* .map((d) => ({ dimension: toTitle(d.dimension), score100, avg }))
titled(entries) ==
    [i \in 1..Len(entries) |->
        [dimension |-> toTitle(entries[i].dimension),
         score100 |-> entries[i].score100,
         avg |-> entries[i].avg]]

\* Mutant: three entries are kept.
generateStrengths_TopThree(reportModel) ==
    titled(SliceFirst(sortedDimensions(reportModel.dimensionScores), 3))

generateStrengths(reportModel) ==
    titled(SliceFirst(sortedDimensions(reportModel.dimensionScores), 2))

\* Mutant: three entries are kept.
generateWeaknesses_BottomThree(reportModel) ==
    titled(SliceFirst(Reverse(sortedDimensions(reportModel.dimensionScores)), 3))

generateWeaknesses(reportModel) ==
    titled(SliceFirst(Reverse(sortedDimensions(reportModel.dimensionScores)), 2))

\* Mutant: the first band starts above 10.
relationship_Above10(AG) ==
    IF Less(Whole(10), AG) THEN "tends to sit above current operational pressure"
    ELSE IF Geq(AG, Whole(0)) THEN "is slightly above current operational pressure"
    ELSE IF Geq(AG, Whole(-10)) THEN "is slightly below current operational pressure"
    ELSE "may indicate a notable gap to current operational pressure"

\* const relationship (report.js 49-56)
relationship(AG) ==
    IF Geq(AG, Whole(10)) THEN "tends to sit above current operational pressure"
    ELSE IF Geq(AG, Whole(0)) THEN "is slightly above current operational pressure"
    ELSE IF Geq(AG, Whole(-10)) THEN "is slightly below current operational pressure"
    ELSE "may indicate a notable gap to current operational pressure"

\* Number(level || 1)
levelOrOne(v) == Number(IF Truthy(v) THEN v ELSE Whole(1))

generateSummary(reportModel) ==
    LET SSI == NumberOrZero(reportModel.SSI)
        OPI == NumberOrZero(reportModel.operationalPressure.OPI)
        AG == IF reportModel.adequacyGap.t \in {"null", "undef"}
              THEN Sub(SSI, OPI)
              ELSE Number(reportModel.adequacyGap)
        context == reportModel.context.raw
    IN  "Current maturity signals (SSI " \o toFixed1(SSI) \o ") "
            \o relationship(AG)
            \o " (OPI " \o toFixed1(OPI) \o ", AG " \o toFixed1(AG) \o "). "
            \o "With team size level " \o NumberToString(levelOrOne(context.teamSize))
            \o " and AI usage level " \o NumberToString(levelOrOne(context.aiUsage))
            \o ", this tends to indicate where practice consistency may need "
            \o "reinforcement as delivery pace changes."

\* Array.prototype.includes
includes(array, x) == \E i \in 1..Len(array) : array[i] = x

\* Array.from(new Set(tips)): the first occurrence of every tip, in order.
RECURSIVE distinctInOrder(_, _)
distinctInOrder(tips, i) ==
    IF i = 0 THEN <<>>
    ELSE LET before == distinctInOrder(tips, i - 1)
         IN  IF includes(before, tips[i]) THEN before ELSE Append(before, tips[i])

ENTROPY_TIPS ==
    <<"Add a contribution RFC template + review gate so AI-assisted changes are triaged with clear owners and decision criteria.",
      "Create a weekly governance check-in that reviews incoming system changes, exceptions, and follow-up actions.">>

DRIFT_TIPS ==
    <<"Publish system releases on a fixed cadence with release notes and a lightweight migration checklist for consuming teams.",
      "Track package adoption and breakages after each release so distribution issues are visible within one sprint.">>

\* The dimensions that have a tip, in the order the code tests them.
TIP_DIMENSIONS ==
    <<"governance", "distribution", "documentation", "components",
      "foundations", "adoption">>

DIMENSION_TIP ==
    [governance |-> "Define who approves token/component changes and add a simple intake form so requests follow one visible path.",
     distribution |-> "Set up one repeatable publish workflow (version, notes, package release) and treat failed releases as a tracked incident.",
     documentation |-> "Update docs in the same pull request as component changes, including examples for loading, empty, and error states.",
     components |-> "Standardize component API patterns (states, variants, naming) and add a pre-merge check for accessibility basics.",
     foundations |-> "Move core style values into shared tokens and add a lint/review check to reduce hard-coded color and spacing values.",
     adoption |-> "Set a quarterly adoption target for two high-traffic flows and review progress with concrete usage metrics."]

FALLBACK_TIP ==
    "Pick one low-scoring behavior per dimension and run a 2-week improvement sprint with a clear owner and observable success signal."

\* Mutant: the tips follow the order of the weaknesses.
dimensionTips_InWeaknessOrder(weakestKeys, i) ==
    LET known == SelectSeq(weakestKeys, LAMBDA d : includes(TIP_DIMENSIONS, d))
    IN  [k \in 1..Len(known) |-> DIMENSION_TIP[known[k]]]

\* The tips pushed for the first i dimensions of TIP_DIMENSIONS.
RECURSIVE dimensionTips(_, _)
dimensionTips(weakestKeys, i) ==
    IF i = 0 THEN <<>>
    ELSE dimensionTips(weakestKeys, i - 1)
            \o (IF includes(weakestKeys, TIP_DIMENSIONS[i])
                THEN <<DIMENSION_TIP[TIP_DIMENSIONS[i]]>> ELSE <<>>)

\* Mutant: no fallback tip.
generateGuidance_NoFallback(reportModel) ==
    LET riskFlags == reportModel.risks.flags
        weakest == generateWeaknesses(reportModel)
        weakestKeys == [i \in 1..Len(weakest) |-> toLowerCase(weakest[i].dimension)]
        tips == (IF includes(riskFlags, ENTROPY_FLAG) THEN ENTROPY_TIPS ELSE <<>>)
                    \o (IF includes(riskFlags, DRIFT_FLAG) THEN DRIFT_TIPS ELSE <<>>)
                    \o dimensionTips(weakestKeys, Len(TIP_DIMENSIONS))
    IN  distinctInOrder(tips, Len(tips))

generateGuidance(reportModel) ==
    LET riskFlags == reportModel.risks.flags
        weakest == generateWeaknesses(reportModel)
        weakestKeys == [i \in 1..Len(weakest) |-> toLowerCase(weakest[i].dimension)]
        tips == (IF includes(riskFlags, ENTROPY_FLAG) THEN ENTROPY_TIPS ELSE <<>>)
                    \o (IF includes(riskFlags, DRIFT_FLAG) THEN DRIFT_TIPS ELSE <<>>)
                    \o dimensionTips(weakestKeys, Len(TIP_DIMENSIONS))
        all == IF Len(tips) = 0 THEN <<FALLBACK_TIP>> ELSE tips
    IN  distinctInOrder(all, Len(all))

\* The status label shown next to the gap (the caller's getAdequacyStatus).
getAdequacyStatus(gap) ==
    IF Less(gap, Whole(-10)) THEN [label |-> "Underbuilt", className |-> "underbuilt"]
    ELSE IF Less(Whole(10), gap) THEN [label |-> "Overbuilt", className |-> "overbuilt"]
    ELSE [label |-> "Balanced", className |-> "balanced"]

(***************************************************************************)
(* The caller.  It owns the questionnaire and the two answer maps, records *)
(* one answer at a time for a question of the questionnaire, and calls     *)
(* computeReportModel on the current maps.                                 *)
(***************************************************************************)
\* Option scores of a context question.
ContextValues == {Whole(i) : i \in 1..4}
\* Scoring labels of a behavioural question, and one value above the scale.
MaturityValues == {Whole(i) : i \in 0..3} \cup {Whole(5)}

Question(id, dimension) == [id |-> id, dimension |-> dimension]

Schema(contextIds, behavioralQuestions) ==
    [operationalContext |->
        [questions |-> [i \in 1..Len(contextIds) |-> [id |-> contextIds[i]]]],
     structuralMaturity |-> [behavioralQuestions |-> behavioralQuestions]]

\* The questionnaires the engine is run on: the canonical context ids, the
\* legacy ones, both names of two factors, and a maturity-heavy one whose
\* dimension names differ in case and interleave.
CanonicalSchema ==
    Schema(<<"teamSize", "productComplexity", "aiUsage", "releaseFrequency",
             "toolingFragmentation">>, <<>>)
LegacySchema ==
    Schema(<<"oc_team_size", "oc_product_complexity", "oc_ai_usage",
             "oc_release_frequency", "oc_tooling_fragmentation">>, <<>>)
AliasSchema ==
    Schema(<<"teamSize", "oc_team_size", "aiUsage", "oc_ai_usage">>,
           <<Question("m1", "Documentation")>>)
\* The behavioural questions of the maturity-heavy questionnaire are the first
\* MaxQuestions of this list.
MaxQuestions == 3
QuestionPool ==
    <<Question("g1", "Governance"), Question("d1", "distribution"),
      Question("g2", "governance"), Question("m1", "Documentation"),
      Question("d2", "Distribution"), Question("c1", "components")>>
MaturitySchema ==
    Schema(<<"aiUsage", "oc_team_size">>,
           SubSeq(QuestionPool, 1,
                  IF MaxQuestions < Len(QuestionPool) THEN MaxQuestions
                  ELSE Len(QuestionPool)))

Schemas == {CanonicalSchema, LegacySchema, AliasSchema, MaturitySchema}

ContextIds(schema) ==
    {schema.operationalContext.questions[i].id :
        i \in 1..Len(schema.operationalContext.questions)}
QuestionIds(schema) ==
    {schema.structuralMaturity.behavioralQuestions[i].id :
        i \in 1..Len(schema.structuralMaturity.behavioralQuestions)}

NoMap == [k \in {} |-> Whole(0)]
NoReport == [none |-> TRUE]
NoNarrative == [none |-> TRUE]
NoCall == [none |-> TRUE]

\* A stored item: absent (getItem returns null), a text that is not JSON, or
\* the text of a JSON value.
NoItem == [kind |-> "none", value |-> <<>>]
NotJson == [kind |-> "text", value |-> <<>>]
Json(value) == [kind |-> "json", value |-> value]

\* The page before its script has run: the initial state object, empty
\* storage, the button as rendered.
INITIAL_STEP == Whole(1)
NoKeys == [context |-> <<>>, maturity |-> <<>>]
EmptyStorage == [wizard |-> NoItem, reports |-> NoItem, available |-> TRUE]
COPY_LABEL == "Copy summary"
IdleButton == [label |-> COPY_LABEL, awaiting |-> <<>>, timers |-> <<>>]

PageNotOpen ==
    /\ currentStep = INITIAL_STEP
    /\ keyOrder = NoKeys
    /\ validationMessage = ""
    /\ localStorage = EmptyStorage
    /\ clock = 0
    /\ copyButton = IdleButton

\* obj[key] = value
Put(obj, key, value) ==
    [k \in DOMAIN obj \cup {key} |-> IF k = key THEN value ELSE obj[k]]

Init ==
    /\ QUESTIONNAIRE \in Schemas
    /\ responses = NoMap
    /\ contextResponses = NoMap
    /\ pc = "idle"
    /\ report = NoReport
    /\ narrative = NoNarrative
    /\ normalized = NoCall
    /\ PageNotOpen

\* state.contextResponses[id] = Number(value)
AnswerContext ==
    \E id \in ContextIds(QUESTIONNAIRE), value \in ContextValues :
        /\ pc # "model"
        /\ contextResponses' = Put(contextResponses, id, Number(value))
        /\ pc' = "idle"
        /\ report' = NoReport
        /\ narrative' = NoNarrative
        /\ UNCHANGED <<QUESTIONNAIRE, responses, normalized>>
        /\ UNCHANGED page

\* state.responses[id] = Number(value)
AnswerMaturity ==
    \E id \in QuestionIds(QUESTIONNAIRE), value \in MaturityValues :
        /\ pc # "model"
        /\ responses' = Put(responses, id, Number(value))
        /\ pc' = "idle"
        /\ report' = NoReport
        /\ narrative' = NoNarrative
        /\ UNCHANGED <<QUESTIONNAIRE, contextResponses, normalized>>
        /\ UNCHANGED page

\* Mutant: the clamped answers are written back into the responses map.
ComputeReport_ClampsInPlace ==
    /\ pc = "idle"
    /\ report' = computeReportModel(responses, contextResponses, QUESTIONNAIRE)
    /\ responses' = [id \in DOMAIN responses |->
                         toClampedNumber(responses[id], Whole(0), Whole(3))]
    /\ pc' = "model"
    /\ UNCHANGED <<QUESTIONNAIRE, contextResponses, narrative, normalized>>
    /\ UNCHANGED page

\* renderResultsStep, first half: getComputedReport calls computeReportModel
\* on the current maps.
ComputeReport ==
    /\ pc = "idle"
    /\ report' = computeReportModel(responses, contextResponses, QUESTIONNAIRE)
    /\ pc' = "model"
    /\ UNCHANGED <<QUESTIONNAIRE, responses, contextResponses, narrative, normalized>>
    /\ UNCHANGED page

\* renderResultsStep, second half: the four generators and getAdequacyStatus
\* are called on the report model.
Narrate ==
    /\ pc = "model"
    /\ narrative' = [summary |-> generateSummary(report),
                     guidance |-> generateGuidance(report),
                     strengths |-> generateStrengths(report),
                     weaknesses |-> generateWeaknesses(report),
                     adequacyStatus |-> getAdequacyStatus(report.adequacyGap)]
    /\ pc' = "done"
    /\ UNCHANGED <<QUESTIONNAIRE, responses, contextResponses, report, normalized>>
    /\ UNCHANGED page

Next == AnswerContext \/ AnswerMaturity \/ ComputeReport \/ Narrate

Spec == Init /\ [][Next]_vars

\* Response maps as restoreState can load them from storage: any JSON value
\* under any key (1e999 parses to Infinity; NaN comes from Number(target.value)).
MalformedValues ==
    {Whole(-1), Num(5, 2), Whole(7), NaN, PosInfinity, NegInfinity, Text,
     Null, JsTrue, NumericText(2)}

MalformedSchema ==
    Schema(<<"aiUsage", "other">>,
           <<Question("g1", "Governance"), Question("g2", "governance"),
             Question("d1", "Distribution")>>)

\* Every map that gives each key of choices either no entry or one of the
\* values choices lists for it.
MapsOver(choices) ==
    UNION {[keys -> UNION {choices[k] : k \in keys}] : keys \in SUBSET DOMAIN choices}

MapsFrom(choices) ==
    {m \in MapsOver(choices) : \A k \in DOMAIN m : m[k] \in choices[k]}

MalformedContexts ==
    MapsFrom([aiUsage |-> MalformedValues, other |-> {Whole(3), Text}])

MalformedResponses ==
    MapsFrom([g1 |-> MalformedValues, g2 |-> MalformedValues,
              d1 |-> {NaN, Whole(7), Whole(2)}])

InitMalformed ==
    /\ QUESTIONNAIRE = MalformedSchema
    /\ responses \in MalformedResponses
    /\ contextResponses \in MalformedContexts
    /\ pc = "idle"
    /\ report = NoReport
    /\ narrative = NoNarrative
    /\ normalized = NoCall
    /\ PageNotOpen

NextMalformed == ComputeReport \/ Narrate

SpecMalformed == InitMalformed /\ [][NextMalformed]_vars

\* The normalisers called on their own, on two arguments x and y: the
\* multiples of 1/NormDen from -1 to 5 and the values that are no finite
\* number.
NormDen == 2

NormArgs ==
    {Num(k, NormDen) : k \in (-NormDen)..(5 * NormDen)}
        \cup {NaN, PosInfinity, NegInfinity, Text, Null, Undefined, JsTrue,
              NumericText(2)}

InitNormalize ==
    /\ QUESTIONNAIRE = CanonicalSchema
    /\ responses = NoMap
    /\ contextResponses = NoMap
    /\ pc = "idle"
    /\ report = NoReport
    /\ narrative = NoNarrative
    /\ normalized \in [x : NormArgs, y : NormArgs, returned : {FALSE},
                       on0to3 : {<<>>}, on1to4 : {<<>>}]
    /\ PageNotOpen

Normalize ==
    /\ pc = "idle"
    /\ normalized' =
           [normalized EXCEPT
               !.returned = TRUE,
               !.on0to3 = <<normalize0to3To100(normalized.x),
                            normalize0to3To100(normalized.y)>>,
               !.on1to4 = <<normalize1to4To100(normalized.x),
                            normalize1to4To100(normalized.y)>>]
    /\ pc' = "done"
    /\ UNCHANGED <<QUESTIONNAIRE, responses, contextResponses, report, narrative>>
    /\ UNCHANGED page

NextNormalize == Normalize

SpecNormalize == InitNormalize /\ [][NextNormalize]_vars

\* The generators called on report models (report.js typedef ReportModel)
\* of up to MaxDimensions dimensions, named in insertion order by one of two
\* pools (the second starts with two dimensions that have no tip), each with
\* one of three scores, an adequacy gap on, next to and away from the
\* boundaries 10, 0 and -10, and a list of risk flags.
MaxDimensions == 4

DimensionPool ==
    <<"governance", "distribution", "documentation", "components",
      "foundations", "adoption">>

MixedPool ==
    <<"accessibility", "tooling", "governance", "distribution",
      "documentation", "components">>

DimensionPools == {DimensionPool, MixedPool}

FlagLists ==
    {<<>>, <<ENTROPY_FLAG>>, <<DRIFT_FLAG>>, <<ENTROPY_FLAG, DRIFT_FLAG>>,
     <<DRIFT_FLAG, ENTROPY_FLAG>>, <<gapFlag("governance")>>}

ScoreLevels == {Whole(10), Whole(50), Whole(90)}

GapLevels ==
    {Whole(-11), Num(-101, 10), Whole(-10), Num(-99, 10), Num(-1, 10), Whole(0),
     Num(1, 10), Num(99, 10), Whole(10), Num(101, 10), Whole(15)}

DimensionCounts ==
    0..(IF MaxDimensions < Len(DimensionPool) THEN MaxDimensions ELSE Len(DimensionPool))

\* dimensionScores with the given score100 values: avg is the 0-3 average
\* that normalises to the score.
ScoredDimensions(pool, scores) ==
    [i \in 1..Len(scores) |->
        [dimension |-> pool[i],
         avg |-> Div(Mul(scores[i], Whole(3)), Whole(100)),
         score100 |-> scores[i],
         answered |-> 1,
         total |-> 1]]

ReportModelOf(pool, scores, gap, flags) ==
    LET dimensionScores == ScoredDimensions(pool, scores)
        SSI == computeSSI(dimensionScores)
        OPI == Sub(SSI, gap)
    IN  [context |-> [raw |-> [teamSize |-> Whole(2), aiUsage |-> Whole(3)]],
         operationalPressure |-> [OPI |-> OPI],
         dimensionScores |-> dimensionScores,
         SSI |-> SSI,
         adequacyGap |-> computeAdequacyGap(SSI, OPI),
         risks |-> [flags |-> flags]]

ReportModels ==
    {r \in {ReportModelOf(pool, scores, gap, flags) :
                pool \in DimensionPools,
                scores \in UNION {[1..n -> ScoreLevels] : n \in DimensionCounts},
                gap \in GapLevels,
                flags \in FlagLists} :
        /\ Leq(Whole(0), r.operationalPressure.OPI)
        /\ Leq(r.operationalPressure.OPI, Whole(100))}

InitNarrative ==
    /\ QUESTIONNAIRE = CanonicalSchema
    /\ responses = NoMap
    /\ contextResponses = NoMap
    /\ pc = "model"
    /\ report \in ReportModels
    /\ narrative = NoNarrative
    /\ normalized = NoCall
    /\ PageNotOpen

NextNarrative == Narrate

SpecNarrative == InitNarrative /\ [][NextNarrative]_vars

(***************************************************************************)
(* The wizard (app script): three steps, answers kept in state and, as a   *)
(* JSON snapshot, in localStorage; every results render may add a record   *)
(* to the list of saved reports.                                           *)
(***************************************************************************)
TOTAL_STEPS == 3
MAX_SAVED_REPORTS == 25

\* JSON.stringify of a number: a non-finite number is written as null.
jsonOf(v) == IF IsFinite(v) THEN v ELSE Null

\* persistState: the object handed to JSON.stringify.  The text keeps the
\* keys of each map in insertion order.
snapshotOf(step, ctx, resp, order) ==
    [currentStep |-> jsonOf(step),
     contextResponses |-> [k \in DOMAIN ctx |-> jsonOf(ctx[k])],
     responses |-> [k \in DOMAIN resp |-> jsonOf(resp[k])],
     keyOrder |-> order,
     absent |-> {}]

\* writeStorage: setItem throws when storage does not work, and the item
\* keeps its old value.
writeStorage(storage, key, item) ==
    IF storage.available THEN [storage EXCEPT ![key] = item] ELSE storage

\* readStorage: getItem, null when it throws.
readStorage(storage, key) == IF storage.available THEN storage[key] ELSE NoItem

\* state.currentStep = Number(parsed.currentStep) || 1, reset to 1 outside
\* 1..TOTAL_STEPS.
restoredStep(stored) ==
    LET n == Number(stored)
        step == IF Truthy(n) THEN n ELSE Whole(1)
    IN  IF Less(step, Whole(1)) \/ Less(Whole(TOTAL_STEPS), step)
        THEN Whole(1) ELSE step

\* The state restoreState leaves, from the state it finds and the stored item.
restoreState(current, storage) ==
    LET raw == readStorage(storage, "wizard")
        parsed == raw.value
    IN  CASE raw.kind = "none" -> current
          [] raw.kind = "text" ->
                [currentStep |-> Whole(1), contextResponses |-> NoMap,
                 responses |-> NoMap, keyOrder |-> NoKeys]
          [] raw.kind = "scalar" -> current
          [] OTHER ->
                [currentStep |-> restoredStep(parsed.currentStep),
                 contextResponses |->
                     IF "contextResponses" \in parsed.absent THEN NoMap
                     ELSE parsed.contextResponses,
                 responses |->
                     IF "responses" \in parsed.absent THEN NoMap
                     ELSE parsed.responses,
                 keyOrder |->
                     [context |-> IF "contextResponses" \in parsed.absent THEN <<>>
                                  ELSE parsed.keyOrder.context,
                      maturity |-> IF "responses" \in parsed.absent THEN <<>>
                                   ELSE parsed.keyOrder.maturity]]

\* The state object of a freshly loaded script.
InitialState ==
    [currentStep |-> INITIAL_STEP, contextResponses |-> NoMap,
     responses |-> NoMap, keyOrder |-> NoKeys]

\* The question ids of the wizard's questionnaires in the order localeCompare
\* puts them.
KEY_COLLATION == <<"aiUsage", "g1", "teamSize">>
localeRank(key) == CHOOSE i \in 1..Len(KEY_COLLATION) : KEY_COLLATION[i] = key

\* Array.prototype.sort with (a, b) => a.localeCompare(b): stable.
insertKey(sorted, key) ==
    LET n == Cardinality({i \in 1..Len(sorted) :
                            localeRank(sorted[i]) <= localeRank(key)})
    IN  SubSeq(sorted, 1, n) \o <<key>> \o SubSeq(sorted, n + 1, Len(sorted))
RECURSIVE sortKeys(_)
sortKeys(keys) ==
    IF keys = <<>> THEN <<>>
    ELSE insertKey(sortKeys(SubSeq(keys, 1, Len(keys) - 1)), keys[Len(keys)])

RECURSIVE join(_, _)
join(parts, separator) ==
    IF parts = <<>> THEN ""
    ELSE IF Len(parts) = 1 THEN parts[1]
    ELSE parts[1] \o separator \o join(Tail(parts), separator)

\* Object.entries(map).sort(...).map(([k, v]) => `${k}:${v}`).join("|")
entriesText(map, order) ==
    LET keys == sortKeys(order)
    IN  join([i \in 1..Len(keys) |-> keys[i] \o ":" \o NumberToString(map[keys[i]])],
             "|")

getStateFingerprint(ctx, resp, order) ==
    entriesText(ctx, order.context) \o "::" \o entriesText(resp, order.maturity)

loadSavedReports(storage) ==
    LET raw == readStorage(storage, "reports")
    IN  IF raw.kind = "json" THEN raw.value ELSE <<>>

\* Whether saveReportSnapshot builds a record: the newest saved report has
\* another fingerprint, or there is none.
addsRecord(storage, fingerprint) ==
    LET reports == loadSavedReports(storage)
    IN  reports = <<>> \/ reports[1].fingerprint # fingerprint

\* Mutant: the new record goes in front and nothing is cut off.
savedList_Unbounded(record, reports) == <<record>> \o reports

\* [record, ...reports].slice(0, MAX_SAVED_REPORTS)
savedList(record, reports) == SliceFirst(<<record>> \o reports, MAX_SAVED_REPORTS)

\* The storage saveReportSnapshot leaves; now is the time new Date() reads.
saveReportSnapshot(storage, fingerprint, reportModel, summary, guidance, now) ==
    LET reports == loadSavedReports(storage)
        record == [timestamp |-> now,
                   fingerprint |-> fingerprint,
                   summary |-> summary,
                   SSI |-> jsonOf(NumberOrZero(reportModel.SSI)),
                   OPI |-> jsonOf(NumberOrZero(reportModel.operationalPressure.OPI)),
                   adequacyGap |-> jsonOf(NumberOrZero(reportModel.adequacyGap)),
                   risks |-> reportModel.risks.flags,
                   guidance |-> guidance]
    IN  IF addsRecord(storage, fingerprint)
        THEN writeStorage(storage, "reports", Json(savedList(record, reports)))
        ELSE storage

\* validateStep: the message it sets, "" when it clears the message and
\* returns true.
missingText(count, what) ==
    "Please answer all " \o what \o " questions (" \o NatToString(count) \o " left)."

\* Mutant: the structural step is not validated.
validateStep_ContextOnly(step, ctx, resp, schema) ==
    IF step = Whole(1) /\ ContextIds(schema) \ DOMAIN ctx # {}
    THEN missingText(Cardinality(ContextIds(schema) \ DOMAIN ctx), "context")
    ELSE ""

validateStep(step, ctx, resp, schema) ==
    LET missingContext == ContextIds(schema) \ DOMAIN ctx
        missingMaturity == QuestionIds(schema) \ DOMAIN resp
    IN  IF step = Whole(1) /\ missingContext # {}
        THEN missingText(Cardinality(missingContext), "context")
        ELSE IF step = Whole(2) /\ missingMaturity # {}
        THEN missingText(Cardinality(missingMaturity), "structural maturity")
        ELSE ""

\* A context question with the scores of its options.
ContextQuestion(id, scores) ==
    [id |-> id, options |-> [i \in 1..Len(scores) |-> [score |-> Whole(scores[i])]]]

\* The wizard's questionnaires: two context questions and one behavioural
\* question; the first context question has two options or one.
WizardSchema ==
    [operationalContext |->
        [questions |-> <<ContextQuestion("teamSize", <<1, 2>>),
                         ContextQuestion("aiUsage", <<3>>)>>],
     structuralMaturity |->
        [behavioralQuestions |-> <<Question("g1", "governance")>>]]
SingleOptionSchema ==
    [operationalContext |->
        [questions |-> <<ContextQuestion("teamSize", <<2>>),
                         ContextQuestion("aiUsage", <<3>>)>>],
     structuralMaturity |->
        [behavioralQuestions |-> <<Question("g1", "governance")>>]]

\* The radio inputs of a behavioural question, and the ones that get clicked.
RadioValues == {Whole(i) : i \in 0..3}
MaturityClicks == {v \in RadioValues : v = Whole(2)}

\* The largest number of records new Date() tells apart: later records carry
\* the same timestamp.
MaxSaves == 26
\* goNext is not followed beyond this step.
MaxStep == 5

Remember(order, key) ==
    IF \E i \in 1..Len(order) : order[i] = key THEN order ELSE Append(order, key)

\* render: clearValidation, and on the results page getComputedReport and
\* saveReportSnapshot.  storage is the storage the handler leaves before it
\* calls render.
render(step, ctx, resp, order, storage) ==
    /\ validationMessage' = ""
    /\ IF step \notin {Whole(1), Whole(2)}
       THEN /\ report' = computeReportModel(resp, ctx, QUESTIONNAIRE)
            /\ narrative' = [summary |-> generateSummary(report'),
                             guidance |-> generateGuidance(report'),
                             strengths |-> generateStrengths(report'),
                             weaknesses |-> generateWeaknesses(report'),
                             adequacyStatus |-> getAdequacyStatus(report'.adequacyGap)]
            /\ localStorage' =
                  saveReportSnapshot(storage, getStateFingerprint(ctx, resp, order),
                                     report', narrative'.summary, narrative'.guidance,
                                     clock)
            /\ clock' = IF addsRecord(storage, getStateFingerprint(ctx, resp, order))
                           /\ clock < MaxSaves
                        THEN clock + 1 ELSE clock
       ELSE /\ report' = NoReport
            /\ narrative' = NoNarrative
            /\ localStorage' = storage
            /\ clock' = clock

\* persistState on the state the handler has just assigned.
persistState(storage) ==
    writeStorage(storage, "wizard",
                 Json(snapshotOf(currentStep', contextResponses', responses', keyOrder')))

\* Start-up of the script, at the first load of the page and at every reload:
\* restoreState(); bindEvents(); render();
LoadPage ==
    /\ pc \in {"boot", "ready"}
    /\ LET restored == restoreState(InitialState, localStorage)
       IN  /\ currentStep' = restored.currentStep
           /\ contextResponses' = restored.contextResponses
           /\ responses' = restored.responses
           /\ keyOrder' = restored.keyOrder
           /\ render(restored.currentStep, restored.contextResponses,
                     restored.responses, restored.keyOrder, localStorage)
    /\ pc' = "ready"
    /\ UNCHANGED <<QUESTIONNAIRE, normalized, copyButton>>

\* handleAnswerChange on a radio input of the context step.
ChangeContextAnswer ==
    /\ pc = "ready"
    /\ currentStep = Whole(1)
    /\ \E i \in 1..Len(QUESTIONNAIRE.operationalContext.questions) :
         LET q == QUESTIONNAIRE.operationalContext.questions[i]
         IN  \E j \in 1..Len(q.options) :
               /\ contextResponses' = Put(contextResponses, q.id, Number(q.options[j].score))
               /\ keyOrder' = [keyOrder EXCEPT !.context = Remember(@, q.id)]
    /\ UNCHANGED <<currentStep, responses>>
    /\ localStorage' = persistState(localStorage)
    /\ validationMessage' = ""
    /\ UNCHANGED <<QUESTIONNAIRE, pc, report, narrative, normalized, clock, copyButton>>

\* handleAnswerChange on a radio input of the structural step.
ChangeMaturityAnswer ==
    /\ pc = "ready"
    /\ currentStep = Whole(2)
    /\ \E id \in QuestionIds(QUESTIONNAIRE), value \in MaturityClicks :
         /\ responses' = Put(responses, id, Number(value))
         /\ keyOrder' = [keyOrder EXCEPT !.maturity = Remember(@, id)]
    /\ UNCHANGED <<currentStep, contextResponses>>
    /\ localStorage' = persistState(localStorage)
    /\ validationMessage' = ""
    /\ UNCHANGED <<QUESTIONNAIRE, pc, report, narrative, normalized, clock, copyButton>>

goBack ==
    /\ pc = "ready"
    /\ ~Leq(currentStep, Whole(1))
    /\ currentStep' = Sub(currentStep, Whole(1))
    /\ UNCHANGED <<contextResponses, responses, keyOrder>>
    /\ render(currentStep', contextResponses, responses, keyOrder,
              persistState(localStorage))
    /\ UNCHANGED <<QUESTIONNAIRE, pc, normalized, copyButton>>

goNext ==
    /\ pc = "ready"
    /\ Less(currentStep, Whole(MaxStep))
    /\ UNCHANGED <<contextResponses, responses, keyOrder>>
    /\ \/ /\ currentStep = Whole(TOTAL_STEPS)
          /\ currentStep' = Whole(1)
          /\ render(currentStep', contextResponses, responses, keyOrder,
                    persistState(localStorage))
       \/ /\ currentStep # Whole(TOTAL_STEPS)
          /\ validateStep(currentStep, contextResponses, responses, QUESTIONNAIRE) # ""
          /\ validationMessage' =
                validateStep(currentStep, contextResponses, responses, QUESTIONNAIRE)
          /\ UNCHANGED <<currentStep, localStorage, clock, report, narrative>>
       \/ /\ currentStep # Whole(TOTAL_STEPS)
          /\ validateStep(currentStep, contextResponses, responses, QUESTIONNAIRE) = ""
          /\ currentStep' = Add(currentStep, Whole(1))
          /\ render(currentStep', contextResponses, responses, keyOrder,
                    persistState(localStorage))
    /\ UNCHANGED <<QUESTIONNAIRE, pc, normalized, copyButton>>

\* The New response button of the results page.
NewResponse ==
    /\ pc = "ready"
    /\ currentStep \notin {Whole(1), Whole(2)}
    /\ currentStep' = Whole(1)
    /\ contextResponses' = NoMap
    /\ responses' = NoMap
    /\ keyOrder' = NoKeys
    /\ render(currentStep', contextResponses', responses', keyOrder',
              persistState(localStorage))
    /\ UNCHANGED <<QUESTIONNAIRE, pc, normalized, copyButton>>

NextWizard ==
    \/ LoadPage
    \/ ChangeContextAnswer
    \/ ChangeMaturityAnswer
    \/ goBack
    \/ goNext
    \/ NewResponse

\* The wizard opened for the first time: nothing is stored.
InitWizard ==
    /\ QUESTIONNAIRE = WizardSchema
    /\ responses = NoMap
    /\ contextResponses = NoMap
    /\ pc = "boot"
    /\ report = NoReport
    /\ narrative = NoNarrative
    /\ normalized = NoCall
    /\ PageNotOpen

SpecWizard == InitWizard /\ [][NextWizard]_vars

\* What may be stored under the wizard's key when the page is opened: nothing,
\* a text that is not JSON, JSON that is not an object, or an object whose
\* currentStep is any JSON value (Undefined: the key is missing; PosInfinity:
\* a number beyond the double range) and whose maps are missing, partly
\* filled or complete.
JsonScalar == [kind |-> "scalar", value |-> <<>>]
StoredSteps ==
    {Undefined, Null, JsTrue, Text, NumericText(2), PosInfinity,
     Whole(-1), Whole(0), Whole(1), Whole(2), Whole(3), Whole(4), Num(5, 2)}
StoredAnswers ==
    { [contextResponses |-> NoMap, responses |-> NoMap, keyOrder |-> NoKeys,
       absent |-> {"contextResponses", "responses"}],
      [contextResponses |-> [k \in {"teamSize", "aiUsage"} |->
                                IF k = "teamSize" THEN Whole(2) ELSE Whole(3)],
       responses |-> NoMap,
       keyOrder |-> [context |-> <<"aiUsage", "teamSize">>, maturity |-> <<>>],
       absent |-> {}],
      [contextResponses |-> [k \in {"teamSize", "aiUsage"} |->
                                IF k = "teamSize" THEN Whole(2) ELSE Whole(3)],
       responses |-> [k \in {"g1"} |-> Whole(2)],
       keyOrder |-> [context |-> <<"teamSize", "aiUsage">>, maturity |-> <<"g1">>],
       absent |-> {}] }
StoredItems ==
    {NoItem, NotJson, JsonScalar}
        \cup {Json([currentStep |-> step,
                    contextResponses |-> answers.contextResponses,
                    responses |-> answers.responses,
                    keyOrder |-> answers.keyOrder,
                    absent |-> answers.absent]) :
                step \in StoredSteps, answers \in StoredAnswers}

\* The page opened on a browser that holds anything under the wizard's key,
\* and whose storage works or does not.
InitStartUp ==
    /\ QUESTIONNAIRE = SingleOptionSchema
    /\ responses = NoMap
    /\ contextResponses = NoMap
    /\ pc = "boot"
    /\ report = NoReport
    /\ narrative = NoNarrative
    /\ normalized = NoCall
    /\ currentStep = INITIAL_STEP
    /\ keyOrder = NoKeys
    /\ validationMessage = ""
    /\ clock = 0
    /\ copyButton = IdleButton
    /\ \E item \in StoredItems, available \in BOOLEAN :
         localStorage = [wizard |-> item, reports |-> NoItem, available |-> available]

SpecStartUp == InitStartUp /\ [][NextWizard]_vars

\* The Copy summary button of the results page.  A click starts a handler
\* that remembers the label it sees, awaits the copy, shows the outcome and
\* sets a timer that puts the remembered label back.
MaxClicks == 3

RemoveAt(s, i) == SubSeq(s, 1, i - 1) \o SubSeq(s, i + 1, Len(s))

InitCopy ==
    /\ QUESTIONNAIRE = CanonicalSchema
    /\ responses = NoMap
    /\ contextResponses = NoMap
    /\ pc = "idle"
    /\ report = NoReport
    /\ narrative = NoNarrative
    /\ normalized = NoCall
    /\ PageNotOpen

\* click on copySummaryBtn: const originalLabel = target.textContent, then
\* the handler awaits copySummaryToClipboard().
\* Time passes between clicks; MaxClicks bounds them.
ClickCopy ==
    /\ clock < MaxClicks
    /\ clock' = clock + 1
    /\ copyButton' = [copyButton EXCEPT !.awaiting = Append(@, copyButton.label)]
    /\ UNCHANGED <<QUESTIONNAIRE, responses, contextResponses, pc, report,
                   narrative, normalized, currentStep, keyOrder,
                   validationMessage, localStorage>>

\* The promise of one awaiting handler settles: the label shows the outcome
\* and the 1200 ms timer is set.
CopySettles ==
    \E i \in 1..Len(copyButton.awaiting), fulfilled \in BOOLEAN :
        /\ copyButton' =
               [label |-> IF fulfilled THEN "Copied" ELSE "Copy failed",
                awaiting |-> RemoveAt(copyButton.awaiting, i),
                timers |-> Append(copyButton.timers, copyButton.awaiting[i])]
        /\ UNCHANGED <<QUESTIONNAIRE, responses, contextResponses, pc, report,
                       narrative, normalized, currentStep, keyOrder,
                       validationMessage, localStorage, clock>>

\* The oldest timer fires: target.textContent = originalLabel.
TimerFires ==
    /\ copyButton.timers # <<>>
    /\ copyButton' = [copyButton EXCEPT !.label = Head(copyButton.timers),
                                        !.timers = Tail(@)]
    /\ UNCHANGED <<QUESTIONNAIRE, responses, contextResponses, pc, report,
                   narrative, normalized, currentStep, keyOrder,
                   validationMessage, localStorage, clock>>

NextCopy == ClickCopy \/ CopySettles \/ TimerFires

SpecCopy == InitCopy /\ [][NextCopy]_vars

(***************************************************************************)
(* Properties                                                              *)
(***************************************************************************)
Done == pc = "done"

Range(seq) == {seq[i] : i \in 1..Len(seq)}
Occurrences(seq, x) == Cardinality({i \in 1..Len(seq) : seq[i] = x})

\* Sum of g[x] over the finite set S.
RECURSIVE SumOver(_, _)
SumOver(S, g) ==
    IF S = {} THEN Whole(0)
    ELSE LET x == CHOOSE y \in S : TRUE
         IN  Add(g[x], SumOver(S \ {x}, g))

InRange(v, lo, hi) == IsFinite(v) /\ Leq(Whole(lo), v) /\ Leq(v, Whole(hi))

ValidContext == \A k \in DOMAIN contextResponses : contextResponses[k] \in ContextValues

\* C1: the five operational weights sum to exactly 1, and for every
\* contextResponses map with values in 1..4 (any subset of keys) the OPI lies
\* in [0,100] and equals the sum of the five contributions score100*weight.
C1_WeightsAndOPI ==
    /\ DOMAIN OPERATIONAL_WEIGHTS = FactorSet
    /\ Cardinality(FactorSet) = 5
    /\ SumOver(FactorSet, OPERATIONAL_WEIGHTS) = Whole(1)
    /\ (Done /\ ValidContext) =>
         LET op == report.operationalPressure
         IN  /\ InRange(op.OPI, 0, 100)
             /\ \A f \in FactorSet :
                    op.breakdown[f].contribution =
                        Mul(op.breakdown[f].score100, op.breakdown[f].weight)
             /\ op.OPI = SumOver(FactorSet, [f \in FactorSet |-> op.breakdown[f].contribution])

\* Every factor answered 4: the OPI reaches its maximum, 100.
C1_Witness ==
    /\ Done
    /\ Cardinality(DOMAIN contextResponses) = 5
    /\ \A k \in DOMAIN contextResponses : contextResponses[k] = Whole(4)
    /\ report.operationalPressure.OPI = Whole(100)

\* C2: adequacyGap equals SSI minus operationalPressure.OPI of the same
\* report, dimensionGaps has the keys of dimensionScores, in the same order,
\* and dimensionGaps[d] = dimensionScores[d].score100 - OPI for every d.
C2_GapsAreDifferences ==
    Done =>
        LET OPI == report.operationalPressure.OPI
        IN  /\ report.adequacyGap = Sub(report.SSI, OPI)
            /\ Keys(report.dimensionGaps) = Keys(report.dimensionScores)
            /\ \A i \in 1..Len(report.dimensionScores) :
                   report.dimensionGaps[i].gap =
                       Sub(report.dimensionScores[i].score100, OPI)

\* Two dimensions with different scores, a non-zero OPI and a non-zero SSI.
C2_Witness ==
    /\ Done
    /\ Len(report.dimensionScores) = 2
    /\ report.dimensionScores[1].score100 # report.dimensionScores[2].score100
    /\ report.operationalPressure.OPI # Whole(0)
    /\ report.SSI # Whole(0)
    /\ Less(report.adequacyGap, Whole(0))

Clamp0to3(v) ==
    IF Less(v, Whole(0)) THEN Whole(0) ELSE IF Less(Whole(3), v) THEN Whole(3) ELSE v

\* C4: computeDimensionScores returns one entry per distinct lower-cased
\* dimension name a behavioural question references; total counts the
\* questions of the dimension, answered those whose id is a key of the map,
\* avg is the mean of the clamped answered values, and a dimension without
\* answers appears with avg = 0, score100 = 0, answered = 0.
C4_DimensionScores ==
    Done =>
        LET qs == QUESTIONNAIRE.structuralMaturity.behavioralQuestions
            ds == report.dimensionScores
            names == {toLowerCase(qs[i].dimension) : i \in 1..Len(qs)}
            of(d) == {i \in 1..Len(qs) : toLowerCase(qs[i].dimension) = d}
            answeredOf(d) == {i \in of(d) : qs[i].id \in DOMAIN responses}
            clamped == [i \in 1..Len(qs) |->
                           IF qs[i].id \in DOMAIN responses
                           THEN Clamp0to3(responses[qs[i].id]) ELSE Whole(0)]
        IN  /\ Range(Keys(ds)) = names
            /\ Len(ds) = Cardinality(names)
            /\ \A i \in 1..Len(ds) :
                   LET d == ds[i].dimension
                   IN  /\ ds[i].total = Cardinality(of(d))
                       /\ ds[i].answered = Cardinality(answeredOf(d))
                       /\ ds[i].answered <= ds[i].total
                       /\ Mul(ds[i].avg, Whole(ds[i].answered)) =
                              SumOver(answeredOf(d), clamped)
                       /\ ds[i].answered = 0 =>
                              ds[i].avg = Whole(0) /\ ds[i].score100 = Whole(0)

\* "Governance" and "governance" are one dimension with two questions, one of
\* them answered above the scale (clamped to 3), while "distribution" has no
\* answer and is still listed.
C4_Witness ==
    /\ Done
    /\ QUESTIONNAIRE = MaturitySchema
    /\ DOMAIN responses = {"g1", "g2"}
    /\ responses["g1"] = Whole(5)
    /\ responses["g2"] = Whole(0)
    /\ report.dimensionScores =
           <<[dimension |-> "governance", avg |-> Num(3, 2), score100 |-> Whole(50),
              answered |-> 2, total |-> 2],
             [dimension |-> "distribution", avg |-> Whole(0), score100 |-> Whole(0),
              answered |-> 0, total |-> 1]>>

\* The raw value of a factor: the canonical key's value when that key is
\* present, else the legacy key's value when that one is, else 1.
ExpectedRaw(f) ==
    LET canonical == CONTEXT_KEY_ALIASES[f][1]
        legacy == CONTEXT_KEY_ALIASES[f][2]
    IN  IF canonical \in DOMAIN contextResponses THEN contextResponses[canonical]
        ELSE IF legacy \in DOMAIN contextResponses THEN contextResponses[legacy]
        ELSE Whole(1)

\* The raw average of a dimension in the report, 0 when the report has no
\* such dimension.
ReportedAvg(d) ==
    IF \E i \in 1..Len(report.dimensionScores) : report.dimensionScores[i].dimension = d
    THEN (CHOOSE e \in Range(report.dimensionScores) : e.dimension = d).avg
    ELSE Whole(0)

Flags == report.risks.flags

\* C5 as stated: with aiUsage raw = 4 and a governance average below 2 the
\* flags list is the entropy flag and no other flag.
C5_OnlyEntropyFlag ==
    (Done /\ ExpectedRaw("aiUsage") = Whole(4) /\ Less(ReportedAvg("governance"), Whole(2)))
        => Flags = <<ENTROPY_FLAG>>

\* C5 (amended): with aiUsage raw = 4 and a governance average below 2 the
\* flags list contains the entropy flag exactly once; per-dimension gap flags
\* and the drift flag may accompany it.
C5_EntropyFlagOnce ==
    (Done /\ ExpectedRaw("aiUsage") = Whole(4) /\ Less(ReportedAvg("governance"), Whole(2)))
        => Occurrences(Flags, ENTROPY_FLAG) = 1

\* aiUsage 4, every governance answer 0: the governance gap flag comes with
\* the entropy flag.
C5_Witness ==
    /\ Done
    /\ QUESTIONNAIRE = MaturitySchema
    /\ ExpectedRaw("aiUsage") = Whole(4)
    /\ {"g1", "g2"} \subseteq DOMAIN responses
    /\ responses["g1"] = Whole(0)
    /\ responses["g2"] = Whole(0)
    /\ ENTROPY_FLAG \in Range(Flags)
    /\ gapFlag("governance") \in Range(Flags)

\* C6: for every dimension d of dimensionGaps, byDimension[d] = {gap, risk}
\* with risk true exactly when gap < -15 (a gap of exactly -15 is no risk),
\* and the flag "<d> risk (gap < -15)" is in flags exactly when risk is true.
C6_GapRisk ==
    Done =>
        LET gaps == report.dimensionGaps
            by == report.risks.byDimension
        IN  /\ Keys(by) = Keys(gaps)
            /\ \A i \in 1..Len(gaps) :
                   /\ by[i].gap = gaps[i].gap
                   /\ by[i].risk \in BOOLEAN
                   /\ by[i].risk <=> (gaps[i].gap.n < -15 * gaps[i].gap.d)
                   /\ (gaps[i].dimension \o " risk (gap < -15)" \in Range(Flags))
                          <=> by[i].risk

\* One dimension sits exactly on the threshold (no risk), another below it.
C6_Witness ==
    /\ Done
    /\ \E i, j \in 1..Len(report.risks.byDimension) :
           /\ report.risks.byDimension[i].gap = Whole(-15)
           /\ ~report.risks.byDimension[i].risk
           /\ report.risks.byDimension[j].risk
           /\ gapFlag(report.risks.byDimension[j].dimension) \in Range(Flags)

\* C7: the entropy flag is raised if and only if the resolved aiUsage value is
\* >= 3 and the governance raw average is < 2 (0 without a governance
\* dimension or without governance answers); gap flags and the drift rule
\* have no influence on it.
C7_EntropyRule ==
    Done =>
        ((ENTROPY_FLAG \in Range(Flags)) <=>
            (/\ Leq(Whole(3), ExpectedRaw("aiUsage"))
             /\ Less(ReportedAvg("governance"), Whole(2))))

\* aiUsage exactly 3 through the legacy key, a questionnaire without a
\* governance dimension, a gap flag and the drift flag raised as well.
C7_Witness ==
    /\ Done
    /\ QUESTIONNAIRE = AliasSchema
    /\ "aiUsage" \notin DOMAIN contextResponses
    /\ ExpectedRaw("aiUsage") = Whole(3)
    /\ Flags = <<gapFlag("documentation"), ENTROPY_FLAG, DRIFT_FLAG>>

\* C8: the drift flag is raised if and only if the resolved teamSize value is
\* >= 3 and the distribution raw average is < 2 (0 when the dimension is
\* absent or unanswered); with empty contextResponses it is never raised.
C8_DriftRule ==
    Done =>
        /\ (DRIFT_FLAG \in Range(Flags)) <=>
               (/\ Leq(Whole(3), ExpectedRaw("teamSize"))
                /\ Less(ReportedAvg("distribution"), Whole(2)))
        /\ DOMAIN contextResponses = {} => DRIFT_FLAG \notin Range(Flags)

\* teamSize exactly 3 and a distribution average of 1: the flag is raised;
\* the entropy flag is not.
C8_Witness ==
    /\ Done
    /\ QUESTIONNAIRE = MaturitySchema
    /\ ExpectedRaw("teamSize") = Whole(3)
    /\ ReportedAvg("distribution") = Whole(1)
    /\ DRIFT_FLAG \in Range(Flags)
    /\ ENTROPY_FLAG \notin Range(Flags)

\* The gap flags of the dimensions at risk, from position i of byDimension on.
RECURSIVE GapFlagsFrom(_, _)
GapFlagsFrom(by, i) ==
    IF i > Len(by) THEN <<>>
    ELSE (IF by[i].risk THEN <<by[i].dimension \o " risk (gap < -15)">> ELSE <<>>)
             \o GapFlagsFrom(by, i + 1)

\* C9: within one call the flags sequence has no duplicate, its order is the
\* gap flags in the iteration order of dimensionGaps, then the entropy flag
\* if raised, then the drift flag if raised, and hasRisk is true exactly when
\* the sequence is non-empty.
C9_FlagOrder ==
    Done =>
        /\ \A i, j \in 1..Len(Flags) : Flags[i] = Flags[j] => i = j
        /\ Keys(report.risks.byDimension) = Keys(report.dimensionGaps)
        /\ Flags = GapFlagsFrom(report.risks.byDimension, 1)
                     \o (IF ENTROPY_FLAG \in Range(Flags) THEN <<ENTROPY_FLAG>> ELSE <<>>)
                     \o (IF DRIFT_FLAG \in Range(Flags) THEN <<DRIFT_FLAG>> ELSE <<>>)
        /\ report.risks.hasRisk <=> (Len(Flags) > 0)

\* Two gap flags, then entropy, then drift.
C9_Witness ==
    /\ Done
    /\ Flags = <<gapFlag("governance"), gapFlag("distribution"), ENTROPY_FLAG, DRIFT_FLAG>>
    /\ report.risks.hasRisk

\* C10: each factor's raw value is that of the first key present in the order
\* [canonical, legacy], and 1 when neither is present; OPI, context.raw and
\* the risk classifier's teamSize / aiUsage use the same resolution.
C10_AliasResolution ==
    Done =>
        /\ \A f \in FactorSet :
               /\ report.context.raw[f] = ExpectedRaw(f)
               /\ report.operationalPressure.breakdown[f].raw = ExpectedRaw(f)
               /\ ValidContext =>
                      /\ report.context.normalized100[f] =
                             Num((ExpectedRaw(f).n - 1) * 100, 3)
                      /\ report.operationalPressure.breakdown[f].score100 =
                             Num((ExpectedRaw(f).n - 1) * 100, 3)
        /\ ENTROPY_FLAG \in Range(Flags) => Leq(Whole(3), ExpectedRaw("aiUsage"))
        /\ DRIFT_FLAG \in Range(Flags) => Leq(Whole(3), ExpectedRaw("teamSize"))

\* Both keys of teamSize present with different values (the canonical one
\* wins), aiUsage given by its legacy key only.
C10_Witness ==
    /\ Done
    /\ DOMAIN contextResponses = {"teamSize", "oc_team_size", "oc_ai_usage"}
    /\ contextResponses["teamSize"] = Whole(2)
    /\ contextResponses["oc_team_size"] = Whole(4)
    /\ contextResponses["oc_ai_usage"] = Whole(3)
    /\ report.context.raw.teamSize = Whole(2)
    /\ report.context.raw.aiUsage = Whole(3)
    /\ report.context.raw.productComplexity = Whole(1)

BehavioralQuestions == QUESTIONNAIRE.structuralMaturity.behavioralQuestions

\* C12: with maturityResponses = {} and a schema with at least one dimension,
\* SSI = 0 and every dimension of the schema is listed with avg = 0,
\* score100 = 0, answered = 0, for every contextResponses map; adequacyGap
\* then equals -OPI.
C12_EmptyMaturity ==
    (Done /\ DOMAIN responses = {} /\ Len(BehavioralQuestions) >= 1) =>
        /\ report.SSI = Whole(0)
        /\ Len(report.dimensionScores) >= 1
        /\ \A i \in 1..Len(BehavioralQuestions) :
               \E j \in 1..Len(report.dimensionScores) :
                   report.dimensionScores[j].dimension =
                       toLowerCase(BehavioralQuestions[i].dimension)
        /\ \A j \in 1..Len(report.dimensionScores) :
               /\ report.dimensionScores[j].avg = Whole(0)
               /\ report.dimensionScores[j].score100 = Whole(0)
               /\ report.dimensionScores[j].answered = 0
        /\ report.adequacyGap = Num(-report.operationalPressure.OPI.n,
                                    report.operationalPressure.OPI.d)

\* No maturity answer, two dimensions, a context that gives OPI = 45.
C12_Witness ==
    /\ Done
    /\ DOMAIN responses = {}
    /\ Len(report.dimensionScores) = 2
    /\ report.operationalPressure.OPI = Whole(45)
    /\ report.adequacyGap = Whole(-45)

\* C13: every behavioural question answered 3 and every context factor
\* answered 1 (the schema has at least one behavioural question): SSI = 100,
\* OPI = 0, adequacyGap = 100, every dimension gap is +100 and the flags list
\* is empty (hasRisk false).
C13_BestCase ==
    (/\ Done
     /\ Len(BehavioralQuestions) >= 1
     /\ DOMAIN responses = QuestionIds(QUESTIONNAIRE)
     /\ \A id \in DOMAIN responses : responses[id] = Whole(3)
     /\ DOMAIN contextResponses = ContextIds(QUESTIONNAIRE)
     /\ \A id \in DOMAIN contextResponses : contextResponses[id] = Whole(1)) =>
        /\ report.SSI = Whole(100)
        /\ report.operationalPressure.OPI = Whole(0)
        /\ report.adequacyGap = Whole(100)
        /\ \A i \in 1..Len(report.dimensionGaps) :
               report.dimensionGaps[i].gap = Whole(100)
        /\ Flags = <<>>
        /\ ~report.risks.hasRisk

\* The maturity-heavy questionnaire, answered that way.
C13_Witness ==
    /\ Done
    /\ QUESTIONNAIRE = MaturitySchema
    /\ DOMAIN responses = QuestionIds(QUESTIONNAIRE)
    /\ \A id \in DOMAIN responses : responses[id] = Whole(3)
    /\ DOMAIN contextResponses = ContextIds(QUESTIONNAIRE)
    /\ \A id \in DOMAIN contextResponses : contextResponses[id] = Whole(1)
    /\ report.SSI = Whole(100)
    /\ Len(report.dimensionGaps) >= 2

\* The ten context keys the engine accepts.
AcceptedKeys ==
    UNION {{CONTEXT_KEY_ALIASES[f][i] : i \in 1..Len(CONTEXT_KEY_ALIASES[f])} :
           f \in FactorSet}

\* C11: given contextResponses = {} (or any map containing none of the ten
\* accepted context keys), every factor's raw value is 1, every factor's
\* score100 and contribution is 0, and OPI = 0.
C11_NoAcceptedKey ==
    (Done /\ DOMAIN contextResponses \cap AcceptedKeys = {}) =>
        /\ \A f \in FactorSet :
               /\ report.operationalPressure.breakdown[f].raw = Whole(1)
               /\ report.operationalPressure.breakdown[f].score100 = Whole(0)
               /\ report.operationalPressure.breakdown[f].contribution = Whole(0)
        /\ report.operationalPressure.OPI = Whole(0)

\* A report computed from a map whose only key is not an accepted one.
C11_Witness ==
    /\ Done
    /\ DOMAIN contextResponses = {"other"}
    /\ contextResponses["other"] = Whole(3)
    /\ report.operationalPressure.OPI = Whole(0)

\* C14: computeReportModel is total over malformed input: whatever the values
\* of the two response maps (missing, non-numeric, non-finite, out of range),
\* the call returns a report in which OPI, SSI and every dimension score100 lie
\* in [0,100], every dimension avg lies in [0,3], and adequacyGap and every
\* dimension gap are finite numbers.
C14_TotalOverMalformed ==
    Done =>
        /\ InRange(report.operationalPressure.OPI, 0, 100)
        /\ InRange(report.SSI, 0, 100)
        /\ \A i \in 1..Len(report.dimensionScores) :
               /\ InRange(report.dimensionScores[i].score100, 0, 100)
               /\ InRange(report.dimensionScores[i].avg, 0, 3)
        /\ IsFinite(report.adequacyGap)
        /\ Len(report.dimensionGaps) = Len(report.dimensionScores)
        /\ \A i \in 1..Len(report.dimensionGaps) :
               IsFinite(report.dimensionGaps[i].gap)

\* A report computed from a text answer, an answer above the range, an
\* answer that is NaN and a context value of -Infinity.
C14_Witness ==
    /\ Done
    /\ DOMAIN responses = {"g1", "g2", "d1"}
    /\ responses["g1"] = Text
    /\ responses["g2"] = Whole(7)
    /\ responses["d1"] = NaN
    /\ DOMAIN contextResponses = {"aiUsage"}
    /\ contextResponses["aiUsage"] = NegInfinity
    /\ report.SSI = Whole(25)

\* x/3*100 (lo = 0) and (x-1)/3*100 (lo = 1) of the finite number x clamped
\* to [lo, lo+3], written out by cases.
Scaled(x, lo) ==
    IF x.n < lo * x.d THEN Whole(0)
    ELSE IF x.n > (lo + 3) * x.d THEN Whole(100)
    ELSE Num(100 * (x.n - lo * x.d), 3 * x.d)

\* What the claim says of one normaliser, on argument a with result ra and
\* argument b with result rb.  An argument is read as the number Number()
\* converts it to (the code coerces first); "non-numeric" is an argument that
\* Number() converts to NaN.
NormalizerClaim(a, ra, b, rb, lo) ==
    LET na == Number(a)
        nb == Number(b)
    IN  /\ \A i \in 0..3 : a = Whole(lo + i) => ra = Num(100 * i, 3)
        /\ IsFinite(na) => ra = Scaled(na, lo)
        /\ (IsFinite(a) /\ IsFinite(b) /\ Leq(a, b)) => Leq(ra, rb)
        /\ Leq(na, Whole(lo)) => ra = Whole(0)
        /\ (IsFinite(na) /\ Geq(na, Whole(lo + 3))) => ra = Whole(100)
        /\ ~IsFinite(na) => ra = Whole(0)
        /\ InRange(ra, 0, 100)

\* C15: normalize0to3To100 clamps its argument to [0,3] and returns x/3*100,
\* normalize1to4To100 clamps to [1,4] and returns (x-1)/3*100: they map
\* 0,1,2,3 (resp. 1,2,3,4) to 0, 100/3, 200/3, 100, are monotonic
\* non-decreasing on the finite numbers, return 0 for any argument at or
\* below the lower bound and 100 for any finite argument at or above the
\* upper bound, and return 0 for an argument that is non-numeric or non-finite.
C15_Normalizers ==
    (normalized # NoCall /\ normalized.returned) =>
        /\ NormalizerClaim(normalized.x, normalized.on0to3[1],
                           normalized.y, normalized.on0to3[2], 0)
        /\ NormalizerClaim(normalized.x, normalized.on1to4[1],
                           normalized.y, normalized.on1to4[2], 1)

\* Both normalisers returned for 1/2, below the range of one and inside the
\* range of the other, and for +Infinity.
C15_Witness ==
    /\ normalized # NoCall
    /\ normalized.returned
    /\ normalized.x = Num(1, 2)
    /\ normalized.y = PosInfinity
    /\ normalized.on0to3 = <<Num(50, 3), Whole(0)>>
    /\ normalized.on1to4 = <<Whole(0), Whole(0)>>

Told == pc = "done" /\ narrative # NoNarrative

Scores == report.dimensionScores

\* Position of a listed (title-cased) dimension in the report's insertion order.
Pos(entry) == IndexOf(Scores, toLowerCase(entry.dimension), 1)

\* The list names distinct dimensions of the report, with their scores.
ListsDimensions(list) ==
    /\ \A i \in 1..Len(list) :
           /\ Pos(list[i]) # 0
           /\ list[i].score100 = Scores[Pos(list[i])].score100
           /\ list[i].avg = Scores[Pos(list[i])].avg
    /\ \A i, j \in 1..Len(list) : i # j => Pos(list[i]) # Pos(list[j])

Listed(list) == {Pos(list[i]) : i \in 1..Len(list)}

\* The two highest, in descending order.
TwoHighestDescending(list) ==
    /\ ListsDimensions(list)
    /\ Len(list) = (IF Len(Scores) < 2 THEN Len(Scores) ELSE 2)
    /\ \A i, j \in 1..Len(list) : i < j => Geq(list[i].score100, list[j].score100)
    /\ \A i \in 1..Len(list) : \A k \in (1..Len(Scores)) \ Listed(list) :
           Geq(list[i].score100, Scores[k].score100)

\* The two lowest, in ascending order.
TwoLowestAscending(list) ==
    /\ ListsDimensions(list)
    /\ Len(list) = (IF Len(Scores) < 2 THEN Len(Scores) ELSE 2)
    /\ \A i, j \in 1..Len(list) : i < j => Leq(list[i].score100, list[j].score100)
    /\ \A i \in 1..Len(list) : \A k \in (1..Len(Scores)) \ Listed(list) :
           Leq(list[i].score100, Scores[k].score100)

TiesInInsertionOrder(list) ==
    \A i, j \in 1..Len(list) :
        (i < j /\ list[i].score100 = list[j].score100) => Pos(list[i]) < Pos(list[j])

TiesInReverseInsertionOrder(list) ==
    \A i, j \in 1..Len(list) :
        (i < j /\ list[i].score100 = list[j].score100) => Pos(list[i]) > Pos(list[j])

\* Rank of the k-th dimension of the report when the dimensions are ordered
\* by score100 descending, equal scores by insertion order.
RankOf(k) ==
    1 + Cardinality({j \in 1..Len(Scores) :
                        \/ Less(Scores[k].score100, Scores[j].score100)
                        \/ (Scores[j].score100 = Scores[k].score100 /\ j < k)})

Names(list) == [i \in 1..Len(list) |-> list[i].dimension]

\* The claim's example, with the report's first, second and third dimension
\* for A, B, C.
ExampleHolds ==
    [i \in 1..Len(Scores) |-> Scores[i].score100] = <<Whole(90), Whole(50), Whole(10)>> =>
        /\ Names(narrative.strengths) =
               <<toTitle(Scores[1].dimension), toTitle(Scores[2].dimension)>>
        /\ Names(narrative.weaknesses) =
               <<toTitle(Scores[3].dimension), toTitle(Scores[2].dimension)>>

\* C18 as stated: on scores {A:90, B:50, C:10} strengths are [A,B] and
\* weaknesses [C,B]; strengths are the two highest score100 in descending
\* order, weaknesses the two lowest in ascending order, and in both lists
\* dimensions with equal score100 appear in their original insertion order.
C18_TiesInInsertionOrderInBoth ==
    Told =>
        /\ ExampleHolds
        /\ TwoHighestDescending(narrative.strengths)
        /\ TwoLowestAscending(narrative.weaknesses)
        /\ TiesInInsertionOrder(narrative.strengths)
        /\ TiesInInsertionOrder(narrative.weaknesses)

\* C18 (amended): on scores {A:90, B:50, C:10} strengths are [A,B] and
\* weaknesses [C,B]; strengths are the two highest score100 in descending
\* order, weaknesses the two lowest in ascending order; dimensions with equal
\* score100 appear in insertion order in strengths and in reverse insertion
\* order in weaknesses: with the dimensions ranked by score100 descending and
\* equal scores by insertion order, strengths are ranks 1, 2 and weaknesses
\* ranks n, n-1.
C18_RankedLists ==
    Told =>
        /\ ExampleHolds
        /\ TwoHighestDescending(narrative.strengths)
        /\ TwoLowestAscending(narrative.weaknesses)
        /\ TiesInInsertionOrder(narrative.strengths)
        /\ TiesInReverseInsertionOrder(narrative.weaknesses)
        /\ \A i \in 1..Len(narrative.strengths) :
               RankOf(Pos(narrative.strengths[i])) = i
        /\ \A i \in 1..Len(narrative.weaknesses) :
               RankOf(Pos(narrative.weaknesses[i])) = Len(Scores) + 1 - i

\* The example of the claim.
C18_Witness ==
    /\ Told
    /\ [i \in 1..Len(Scores) |-> Scores[i].score100] = <<Whole(90), Whole(50), Whole(10)>>
    /\ Names(narrative.strengths) = <<"Governance", "Distribution">>
    /\ Names(narrative.weaknesses) = <<"Documentation", "Distribution">>

NameSet(list) == {list[i].dimension : i \in 1..Len(list)}

\* C19: for a report with n dimensions, generateStrengths and
\* generateWeaknesses each return min(2, n) entries; when n >= 4 no dimension
\* appears in both lists, also when scores tie; when n < 4 the lists share a
\* dimension: for n = 1 the single dimension, for n = 2 both, for n = 3 the
\* middle one (second in both lists) and no other.
C19_ListSizesAndOverlap ==
    Told =>
        LET n == Len(Scores)
            strengths == narrative.strengths
            weaknesses == narrative.weaknesses
        IN  /\ Len(strengths) = (IF n < 2 THEN n ELSE 2)
            /\ Len(weaknesses) = (IF n < 2 THEN n ELSE 2)
            /\ n >= 4 => NameSet(strengths) \cap NameSet(weaknesses) = {}
            /\ n = 1 => /\ Names(strengths) = Names(weaknesses)
                        /\ Names(strengths) = <<toTitle(Scores[1].dimension)>>
            /\ n = 2 => NameSet(strengths) = NameSet(weaknesses)
            /\ n = 3 => /\ strengths[2].dimension = weaknesses[2].dimension
                        /\ strengths[1].dimension # weaknesses[1].dimension
                        /\ NameSet(strengths) \cap NameSet(weaknesses) =
                               {strengths[2].dimension}

\* Four dimensions with the same score: two entries each, none shared.
C19_Witness ==
    /\ Told
    /\ Len(Scores) = 4
    /\ \A i \in 1..4 : Scores[i].score100 = Whole(50)
    /\ Names(narrative.strengths) = <<"Governance", "Distribution">>
    /\ Names(narrative.weaknesses) = <<"Components", "Documentation">>

\* The relationship phrase of a summary: the text between the SSI figure and
\* the OPI figure.
Phrases ==
    <<"tends to sit above", "is slightly above", "is slightly below",
      "may indicate a notable gap to">>

PhraseOf(gap) ==
    IF Geq(gap, Whole(10)) THEN 1
    ELSE IF Geq(gap, Whole(0)) THEN 2
    ELSE IF Geq(gap, Whole(-10)) THEN 3
    ELSE 4

SummaryWith(k) ==
    "Current maturity signals (SSI " \o toFixed1(report.SSI) \o ") "
        \o Phrases[k] \o " current operational pressure (OPI "
        \o toFixed1(report.operationalPressure.OPI) \o ", AG "
        \o toFixed1(report.adequacyGap) \o "). With team size level "
        \o NumberToString(report.context.raw.teamSize) \o " and AI usage level "
        \o NumberToString(report.context.raw.aiUsage)
        \o ", this tends to indicate where practice consistency may need reinforcement as delivery pace changes."

\* C20: generateSummary picks exactly one of four relationship phrases from
\* adequacyGap: gap >= 10 "tends to sit above", 0 <= gap < 10 "slightly
\* above", -10 <= gap < 0 "slightly below", gap < -10 "may indicate a notable
\* gap"; the boundary values 10, 0 and -10 fall in the first three bands.
C20_SummaryBands ==
    Told =>
        /\ narrative.summary = SummaryWith(PhraseOf(report.adequacyGap))
        /\ \A k \in 1..4 : k # PhraseOf(report.adequacyGap) =>
               narrative.summary # SummaryWith(k)
        /\ report.adequacyGap = Whole(10) => narrative.summary = SummaryWith(1)
        /\ report.adequacyGap = Whole(0) => narrative.summary = SummaryWith(2)
        /\ report.adequacyGap = Whole(-10) => narrative.summary = SummaryWith(3)

\* A summary for the boundary value -10.
C20_Witness ==
    /\ Told
    /\ report.adequacyGap = Whole(-10)
    /\ report.SSI = Whole(50)
    /\ narrative.summary =
           "Current maturity signals (SSI 50.0) is slightly below current operational pressure (OPI 60.0, AG -10.0). With team size level 2 and AI usage level 3, this tends to indicate where practice consistency may need reinforcement as delivery pace changes."

KnownDimensions == Range(TIP_DIMENSIONS)

\* The dimensions of the bottom-2 weaknesses, as keys.
WeakKeys == {toLowerCase(name) : name \in NameSet(narrative.weaknesses)}

\* C21: generateGuidance never returns an empty list: the generic fallback
\* tip is returned if and only if neither the entropy flag nor the drift flag
\* is in risks.flags and none of the bottom-2 weaknesses is one of governance,
\* distribution, documentation, components, foundations, adoption; and when
\* it is returned it is the only tip.
C21_FallbackTip ==
    Told =>
        /\ Len(narrative.guidance) >= 1
        /\ FALLBACK_TIP \in Range(narrative.guidance) <=>
               /\ ENTROPY_FLAG \notin Range(report.risks.flags)
               /\ DRIFT_FLAG \notin Range(report.risks.flags)
               /\ WeakKeys \cap KnownDimensions = {}
        /\ FALLBACK_TIP \in Range(narrative.guidance) =>
               narrative.guidance = <<FALLBACK_TIP>>

\* Only the fallback tip, for a report with a gap flag and two weaknesses that
\* have no tip.
C21_Witness ==
    /\ Told
    /\ report.risks.flags = <<gapFlag("governance")>>
    /\ Names(narrative.weaknesses) = <<"Tooling", "Accessibility">>
    /\ narrative.guidance = <<FALLBACK_TIP>>

\* The tips the claim lists, from the set of flags and the set of weaknesses.
OrderedTips ==
    LET weak == SelectSeq(TIP_DIMENSIONS, LAMBDA d : d \in WeakKeys)
    IN  (IF ENTROPY_FLAG \in Range(report.risks.flags) THEN ENTROPY_TIPS ELSE <<>>)
            \o (IF DRIFT_FLAG \in Range(report.risks.flags) THEN DRIFT_TIPS ELSE <<>>)
            \o [k \in 1..Len(weak) |-> DIMENSION_TIP[weak[k]]]

\* C22: the list returned by generateGuidance contains no duplicate tip and
\* is ordered: the two entropy-risk tips (if the entropy flag is present),
\* then the two drift-risk tips (if the drift flag is present), then the
\* weakness-derived tips in the fixed order governance, distribution,
\* documentation, components, foundations, adoption, whatever the order of
\* risks.flags and of the weaknesses.
C22_GuidanceOrder ==
    Told =>
        /\ \A i, j \in 1..Len(narrative.guidance) :
               i # j => narrative.guidance[i] # narrative.guidance[j]
        /\ OrderedTips # <<>> => narrative.guidance = OrderedTips

\* Drift flag before entropy flag, distribution weaker than governance: the
\* tips come entropy, drift, governance, distribution.
C22_Witness ==
    /\ Told
    /\ report.risks.flags = <<DRIFT_FLAG, ENTROPY_FLAG>>
    /\ Names(narrative.weaknesses) = <<"Distribution", "Governance">>
    /\ narrative.guidance =
           ENTROPY_TIPS \o DRIFT_TIPS
               \o <<DIMENSION_TIP["governance"], DIMENSION_TIP["distribution"]>>

\* C23: the tip of a known dimension is in the guidance if and only if that
\* dimension is one of the bottom-2 weaknesses generateWeaknesses returns for
\* the same report; a known dimension with a low score that is not among the
\* two lowest gets no tip, and at most two weakness-derived tips are returned.
C23_WeaknessTips ==
    Told =>
        /\ \A d \in KnownDimensions :
               DIMENSION_TIP[d] \in Range(narrative.guidance) <=> d \in WeakKeys
        /\ \A i \in 1..Len(Scores) :
               (/\ Scores[i].dimension \in KnownDimensions
                /\ toTitle(Scores[i].dimension) \notin NameSet(narrative.weaknesses)) =>
                   DIMENSION_TIP[Scores[i].dimension] \notin Range(narrative.guidance)
        /\ Cardinality({d \in KnownDimensions :
                           DIMENSION_TIP[d] \in Range(narrative.guidance)}) <= 2

\* Four dimensions with the same low score: governance is as low as the two
\* weaknesses and gets no tip.
C23_Witness ==
    /\ Told
    /\ Len(Scores) = 4
    /\ \A i \in 1..4 : Scores[i].score100 = Whole(10)
    /\ Scores[1].dimension = "governance"
    /\ report.risks.flags = <<>>
    /\ Names(narrative.weaknesses) = <<"Components", "Documentation">>
    /\ narrative.guidance = <<DIMENSION_TIP["documentation"], DIMENSION_TIP["components"]>>

\* C29: the adequacy status label agrees with the summary sentence for every
\* adequacyGap value: getAdequacyStatus returns "Underbuilt" exactly when
\* generateSummary uses the "may indicate a notable gap" band, "Overbuilt"
\* exactly when it uses the "tends to sit above" band, and "Balanced" exactly
\* when it uses one of the two "slightly" bands, including at the boundary
\* gaps 10 and -10.
C29_StatusAgreesWithSummary ==
    Told =>
        /\ narrative.adequacyStatus.label = "Underbuilt" <=>
               narrative.summary = SummaryWith(4)
        /\ narrative.adequacyStatus.label = "Overbuilt" <=>
               narrative.summary = SummaryWith(1)
        /\ narrative.adequacyStatus.label = "Balanced" <=>
               narrative.summary \in {SummaryWith(2), SummaryWith(3)}

\* C28: after any sequence of clicks on the Copy summary button, once every
\* pending copy promise has settled and every pending timer has fired, the
\* button label is again the label it had before the first click.
C28_LabelRestored ==
    (copyButton.awaiting = <<>> /\ copyButton.timers = <<>>) =>
        copyButton.label = COPY_LABEL


\* C24: once the page is loaded, whatever was stored, currentStep is one of
\* the steps 1, 2, 3.
C24_StepIsOneOfThree ==
    pc = "ready" => currentStep \in {Whole(1), Whole(2), Whole(3)}

\* C25: from an empty store the wizard is on step 2 or 3 only if every context
\* question is answered, and on step 3 only if every behavioural question is
\* answered too; a goNext whose validation fails changes neither the step nor
\* an answer, stores nothing and shows the validation message.
AllContextAnswered == ContextIds(QUESTIONNAIRE) \subseteq DOMAIN contextResponses
AllMaturityAnswered == QuestionIds(QUESTIONNAIRE) \subseteq DOMAIN responses
StepsFollowAnswers ==
    /\ currentStep \in {Whole(2), Whole(3)} => AllContextAnswered
    /\ currentStep = Whole(3) => AllMaturityAnswered
FailedValidation ==
    \/ currentStep = Whole(1) /\ ~AllContextAnswered
    \/ currentStep = Whole(2) /\ ~AllMaturityAnswered
C25_ValidatedSteps ==
    /\ []StepsFollowAnswers
    /\ [][(goNext /\ FailedValidation) =>
            /\ UNCHANGED <<currentStep, contextResponses, responses, localStorage>>
            /\ validationMessage' # ""]_vars
C25_Witness ==
    /\ currentStep = Whole(2)
    /\ ~AllMaturityAnswered
    /\ validationMessage = "Please answer all structural maturity questions (1 left)."

\* C26: after every handler that changes currentStep or an answer map, if the
\* write succeeds, the stored snapshot equals the state in memory and
\* restoreState of it gives the same currentStep, contextResponses and
\* responses; a stored text that is not JSON restores to step 1 with both
\* maps empty.
Handler == ChangeContextAnswer \/ ChangeMaturityAnswer \/ goBack \/ goNext \/ NewResponse
StateChanged ==
    <<currentStep, contextResponses, responses>>' # <<currentStep, contextResponses, responses>>
C26_RoundTrip ==
    /\ [][(Handler /\ StateChanged /\ localStorage.available) =>
            LET stored == localStorage'.wizard
                restored == restoreState(InitialState, localStorage')
            IN  /\ stored.kind = "json"
                /\ stored.value.currentStep = currentStep'
                /\ stored.value.contextResponses = contextResponses'
                /\ stored.value.responses = responses'
                /\ restored.currentStep = currentStep'
                /\ restored.contextResponses = contextResponses'
                /\ restored.responses = responses']_vars
    /\ [][(LoadPage /\ readStorage(localStorage, "wizard") = NotJson) =>
            /\ currentStep' = Whole(1)
            /\ contextResponses' = NoMap
            /\ responses' = NoMap]_vars

\* C27: the list of saved reports has at most 25 records, newest first, no two
\* neighbours with the same fingerprint; a results render with unchanged
\* answers adds no record; the fingerprint does not depend on the order in
\* which the answers were given.
SavedReports == loadSavedReports(localStorage)
NewestFirst(reports) ==
    \A i \in 1..Len(reports), j \in 1..Len(reports) :
        i < j => reports[i].timestamp >= reports[j].timestamp
NoRepeatedNeighbour(reports) ==
    \A i \in 1..(Len(reports) - 1) : reports[i].fingerprint # reports[i + 1].fingerprint
Answers == <<contextResponses, responses>>
AnswerOrders ==
    {order \in [context : {<<"teamSize", "aiUsage">>, <<"aiUsage", "teamSize">>},
                maturity : {keyOrder.maturity}] :
        Range(order.context) = DOMAIN contextResponses}
C27_SavedReports ==
    /\ [](/\ Len(SavedReports) <= MAX_SAVED_REPORTS
          /\ NewestFirst(SavedReports)
          /\ NoRepeatedNeighbour(SavedReports)
          /\ \A order \in AnswerOrders :
                getStateFingerprint(contextResponses, responses, order)
                    = getStateFingerprint(contextResponses, responses, keyOrder))
    /\ [][(currentStep' = Whole(3) /\ currentStep = Whole(3) /\ Answers' = Answers)
            => SavedReports' = SavedReports]_vars
C27_Witness ==
    /\ Len(SavedReports) = MAX_SAVED_REPORTS
    /\ clock > MAX_SAVED_REPORTS
    /\ currentStep = Whole(3)
    /\ keyOrder.context = <<"aiUsage", "teamSize">>
=============================================================================
